---- MODULE Spec2Model ----
(***************************************************************************)
(* A model of crates/primitives/src/bits/address.rs: the 20-byte Address   *)
(* newtype, its EIP-55 / EIP-1191 checksum, checksummed parsing, EVM word  *)
(* conversion and CREATE / CREATE2 address derivation (specification       *)
(* Spec); and of the provided methods of the traits SolType                *)
(* (crates/sol-types/src/types/ty.rs) and SolEvent                         *)
(* (crates/sol-types/src/types/event/mod.rs) over the ABI token coder      *)
(* (specification SolSpec).                                                *)
(*                                                                         *)
(* Representation.  A byte is a number in 0..255.  A byte string, a str    *)
(* and a fixed array are sequences of bytes (a str holds ASCII codes).     *)
(* A u64 is its 8 big-endian bytes, so that the full 64-bit range is       *)
(* available.  Option<T> is a sequence of length 0 (None) or 1 (Some).     *)
(* Result<T, E> is a record with a field ok and either val or err.         *)
(***************************************************************************)
EXTENDS Integers, Sequences, FiniteSets, TLC

VARIABLES
    self,       \* the Address the methods are called on; in SolSpec, the
                \* SolType with its value, or the event value
    chain_id,   \* the Option<u64> handed to the checksum functions
    op,         \* the method that was called last ("none" before any call)
    args,       \* the other arguments of that call
    res         \* what that call returned and the local values it computed

vars == <<self, chain_id, op, args, res>>

(***************************************************************************)
(* Bounds of the model: how many sample inputs of each kind are drawn.     *)
(***************************************************************************)
NumAddresses == 3
NumChainIds == 6
NumNonces == 13
NumWords == 4
NumCodes == 3

----------------------------------------------------------------------------
(* Bytes, sequences, ASCII *)

Byte == 0..255

Zeros(n) == [i \in 1..n |-> 0]

Fill(n, b) == [i \in 1..n |-> b]

\* dst[from..to] (0-based, half-open as in Rust) .copy_from_slice(src)
CopyFromSlice(dst, from, src) ==
    [i \in 1..Len(dst) |->
        IF i > from /\ i <= from + Len(src) THEN src[i - from] ELSE dst[i]]

\* &s[from..to] (0-based, half-open)
Slice(s, from, to) == SubSeq(s, from + 1, to)

StartsWith(s, p) == Len(s) >= Len(p) /\ SubSeq(s, 1, Len(p)) = p

IsAsciiLower(c) == c >= 97 /\ c <= 122

IsAsciiUpper(c) == c >= 65 /\ c <= 90

IsAsciiDigit(c) == c >= 48 /\ c <= 57

\* u8::make_ascii_uppercase
MakeAsciiUppercase(c) == IF IsAsciiLower(c) THEN c - 32 ELSE c

\* u8::to_ascii_lowercase
ToAsciiLowercase(c) == IF IsAsciiUpper(c) THEN c + 32 ELSE c

Prefix0x == <<48, 120>>

----------------------------------------------------------------------------
(* The hex codec (external collaborator) *)

\* one nibble as a lower-case hex digit
HexDigit(n) == IF n < 10 THEN 48 + n ELSE 87 + n

\* hex::encode_to_slice: two lower-case digits per byte
HexEncode(bytes) ==
    [i \in 1..(2 * Len(bytes)) |->
        IF i % 2 = 1 THEN HexDigit(bytes[(i + 1) \div 2] \div 16)
                     ELSE HexDigit(bytes[i \div 2] % 16)]

\* the value of a hex digit of either case, -1 for any other character
HexVal(c) ==
    IF IsAsciiDigit(c) THEN c - 48
    ELSE IF c >= 97 /\ c <= 102 THEN c - 87
    ELSE IF c >= 65 /\ c <= 70 THEN c - 55
    ELSE -1

IsHexLetter(c) == (c >= 97 /\ c <= 102) \/ (c >= 65 /\ c <= 70)

\* hex::decode_to_slice into an n-byte array
HexDecode(s, n) ==
    IF Len(s) % 2 # 0 THEN [ok |-> FALSE, err |-> "OddLength"]
    ELSE IF Len(s) \div 2 # n THEN [ok |-> FALSE, err |-> "InvalidStringLength"]
    ELSE IF \E i \in 1..Len(s) : HexVal(s[i]) < 0
        THEN [ok |-> FALSE, err |-> "InvalidHexCharacter"]
    ELSE [ok |-> TRUE,
          val |-> [k \in 1..n |-> 16 * HexVal(s[2 * k - 1]) + HexVal(s[2 * k])]]

----------------------------------------------------------------------------
(* keccak256 (external collaborator).  The digest is a stand-in: a         *)
(* deterministic function of the whole input (every byte, its position     *)
(* and the length) to 32 bytes.  Every property below is stated relative   *)
(* to it; none relies on a property of the real Keccak permutation.        *)

\* b^e modulo the prime 32749, by repeated squaring
RECURSIVE PowMod(_, _)
PowMod(b, e) ==
    IF e = 0 THEN 1
    ELSE LET half == PowMod(b, e \div 2)
             sq == (half * half) % 32749
         IN  IF e % 2 = 0 THEN sq ELSE (sq * b) % 32749

\* the polynomial sum of (bytes[i] + 1) * 257^(hi - i) for i in lo..hi, modulo
\* the prime, computed by halving the range
RECURSIVE Absorb(_, _, _)
Absorb(bytes, lo, hi) ==
    IF lo > hi THEN 0
    ELSE IF lo = hi THEN bytes[lo] + 1
    ELSE LET mid == (lo + hi) \div 2
         IN  (Absorb(bytes, lo, mid) * PowMod(257, hi - mid)
              + Absorb(bytes, mid + 1, hi)) % 32749

keccak256(bytes) ==
    LET h == (Absorb(bytes, 1, Len(bytes)) + 4099 + 31 * Len(bytes)) % 32749
    IN  [j \in 1..32 |-> (((h + 13 * j) * ((h % 251) + 17 * j + 3)) % 65521) % 256]

----------------------------------------------------------------------------
(* u64 values as 8 big-endian bytes; itoa *)

U64(b1, b2) == <<0, 0, 0, 0, 0, 0, b1, b2>>

U64Max == Fill(8, 255)

IsZeroInt(n) == \A i \in 1..Len(n) : n[i] = 0

RECURSIVE DivRem10(_, _, _, _)
\* long division of a big-endian number by ten: quotient digits and remainder
DivRem10(n, i, q, r) ==
    IF i > Len(n) THEN [q |-> q, r |-> r]
    ELSE DivRem10(n, i + 1, Append(q, (r * 256 + n[i]) \div 10), (r * 256 + n[i]) % 10)

RECURSIVE Decimal(_)
Decimal(n) ==
    IF IsZeroInt(n) THEN <<>>
    ELSE LET d == DivRem10(n, 1, <<>>, 0)
         IN  Append(Decimal(d.q), 48 + d.r)

\* itoa::Buffer::format: the decimal ASCII digits, "0" for zero
ItoaFormat(n) == IF IsZeroInt(n) THEN <<48>> ELSE Decimal(n)

----------------------------------------------------------------------------
(* Sample inputs *)

\* 0xd8da6bf26964af9d7eed9e03e53415d37aa96045, the address of the doc examples
DocAddress ==
    <<216, 218, 107, 242, 105, 100, 175, 157, 126, 237,
      158, 3, 229, 52, 21, 211, 122, 169, 96, 69>>

AddressSample(k) ==
    IF k = 0 THEN DocAddress
    ELSE IF k = 1 THEN Zeros(20)
    ELSE [i \in 1..20 |-> (k * 53 + i * (29 + 2 * k) + i * i * k) % 256]

Addresses == {AddressSample(k) : k \in 0..(NumAddresses - 1)}

\* sample u64 values: 1, 30, 2^64 - 1, 0, 0x7f, 0x80, then 2^8, 2^16, ... 2^56
U64Sample(k) ==
    CASE k = 0 -> U64(0, 1)
      [] k = 1 -> U64(0, 30)
      [] k = 2 -> U64Max
      [] k = 3 -> U64(0, 0)
      [] k = 4 -> U64(0, 127)
      [] k = 5 -> U64(0, 128)
      [] k >= 6 /\ k <= 12 -> [i \in 1..8 |-> IF i = 13 - k THEN 1 ELSE 0]
      [] OTHER -> [i \in 1..8 |-> IF i < 1 + (k % 8) THEN 0 ELSE (k * 37 + i * 101) % 256]

None == <<>>

Some(x) == <<x>>

\* None and the first NumChainIds - 1 sample chain ids
ChainIdOptions == {None} \cup {Some(U64Sample(k)) : k \in 0..(NumChainIds - 2)}

Nonces == {U64Sample(k) : k \in 0..(NumNonces - 1)}

\* 32-byte words; the even samples have their first 12 bytes zero
WordSample(k) ==
    [i \in 1..32 |->
        IF i <= 12 /\ k % 2 = 0 THEN 0
        ELSE IF i = 1 + ((5 * k) % 12) THEN 1 + k
        ELSE IF i <= 12 THEN 0
        ELSE (k * 71 + i * 13) % 256]

Words == {WordSample(k) : k \in 0..(NumWords - 1)}

\* init codes: the empty code first, then codes of growing length
CodeSample(k) == [i \in 1..(3 * k) |-> (k * 97 + i * 31) % 256]

Codes == {CodeSample(k) : k \in 0..(NumCodes - 1)}

\* prior contents of a caller's 42-byte buffer
BufferFills == {0, 70, 255}

----------------------------------------------------------------------------
(* Address: word conversion *)

\* the low-index 20 bytes of the word taken instead of word[12..]
from_word_first_20(word) == Slice(word, 0, 20)

\* Address::from_word: word[12..]
from_word(word) == Slice(word, 12, 32)

\* Address::into_word: word = [0; 32]; word[12..].copy_from_slice(self)
into_word(a) == CopyFromSlice(Zeros(32), 12, a)

----------------------------------------------------------------------------
(* Address: checksum *)

\* the hex digits written, the two prefix bytes left as the caller gave them
WritePrefixedHex_NoPrefix(a, buf) == CopyFromSlice(buf, 2, HexEncode(a))

\* buf[0] = b'0'; buf[1] = b'x'; hex::encode_to_slice(self, &mut buf[2..])
WritePrefixedHex(a, buf) ==
    CopyFromSlice([buf EXCEPT ![1] = 48, ![2] = 120], 2, HexEncode(a))

\* a staging array with room for a prefix of 19 digits, the most an i64 has
storage_len_19_digits == 2 + 40 + 19

\* let mut storage = [0u8; 2 + 40 + 20]: the length of the staging array
storage_len == 2 + 40 + 20

\* the staging array of the chain-id branch after the two copies
Storage(buf, cid) ==
    LET prefix_str == ItoaFormat(cid)
        prefix_len == Len(prefix_str)
    IN  CopyFromSlice(CopyFromSlice(Zeros(storage_len), 0, prefix_str), prefix_len, buf)

\* the half-open range from..to lies within a slice of n bytes
InBounds(from, to, n) == 0 <= from /\ from <= to /\ to <= n

\* the accesses to_checksum_raw makes without a bounds check: with a chain id,
\* the ranges of storage it copies into and hashes, each with the length of the
\* slice copied from; and the indices i + 2 of buf in the upper-casing loop
UncheckedAccesses(buf, cid_opt, hash_hex) ==
    [storage |->
        IF cid_opt # None
        THEN LET prefix_str == ItoaFormat(cid_opt[1])
                 prefix_len == Len(prefix_str)
                 len == 2 + 40 + prefix_len
             IN  Some([storage_len |-> storage_len,
                       prefix_len |-> prefix_len,
                       len |-> len,
                       prefix_dst |-> <<0, prefix_len>>,
                       prefix_src_len |-> Len(prefix_str),
                       buf_dst |-> <<prefix_len, len>>,
                       buf_src_len |-> Len(buf),
                       to_hash |-> <<0, len>>])
        ELSE None,
     upper |->
        LET taken == IF Len(hash_hex) < 40 THEN Len(hash_hex) ELSE 40
        IN  {i + 2 : i \in 0..(taken - 1)}]

\* the whole staging array hashed, the unused bytes after len included
ToHash_WholeStorage(buf, cid_opt) ==
    IF cid_opt # None
    THEN Storage(buf, cid_opt[1])
    ELSE Slice(buf, 2, Len(buf))

\* let to_hash = match chain_id { Some => storage[..len], None => &buf[2..] }
ToHash(buf, cid_opt) ==
    IF cid_opt # None
    THEN LET prefix_len == Len(ItoaFormat(cid_opt[1]))
             len == 2 + 40 + prefix_len
         IN  Slice(Storage(buf, cid_opt[1]), 0, len)
    ELSE Slice(buf, 2, Len(buf))

\* the loop clearing bit 5 of the byte, letter or not, instead of calling
\* make_ascii_uppercase
UppercaseLoop_ClearsBit5(buf, hash_hex) ==
    [j \in 1..Len(buf) |->
        IF j >= 3 /\ j <= 42 /\ hash_hex[j - 2] >= 56
        THEN (IF (buf[j] \div 32) % 2 = 1 THEN buf[j] - 32 ELSE buf[j])
        ELSE buf[j]]

\* the loop with the test *x > b'8' instead of *x >= b'8'
UppercaseLoop_Above8(buf, hash_hex) ==
    [j \in 1..Len(buf) |->
        IF j >= 3 /\ j <= 42 /\ hash_hex[j - 2] > 56
        THEN MakeAsciiUppercase(buf[j]) ELSE buf[j]]

\* for (i, x) in hash_hex.iter().enumerate().take(40):
\*     if *x >= b'8' { buf[i + 2].make_ascii_uppercase() }
UppercaseLoop(buf, hash_hex) ==
    [j \in 1..Len(buf) |->
        IF j >= 3 /\ j <= 42 /\ hash_hex[j - 2] >= 56
        THEN MakeAsciiUppercase(buf[j]) ELSE buf[j]]

\* the assertion accepting every buffer of 42 bytes or more
to_checksum_raw_min_len(a, buf, cid_opt) ==
    IF Len(buf) < 42
    THEN [panicked |-> TRUE, buf |-> buf, to_hash |-> <<>>, hash_hex |-> <<>>,
          str |-> <<>>, unchecked |-> [storage |-> None, upper |-> {}]]
    ELSE LET lower == WritePrefixedHex(a, buf)
             to_hash == ToHash(lower, cid_opt)
             hash_hex == HexEncode(keccak256(to_hash))
             out == UppercaseLoop(lower, hash_hex)
         IN  [panicked |-> FALSE, buf |-> out, to_hash |-> to_hash,
              hash_hex |-> hash_hex, str |-> out,
              unchecked |-> UncheckedAccesses(lower, cid_opt, hash_hex)]

\* Address::to_checksum_raw(&self, buf, chain_id), with the values of its locals:
\* assert_eq!(buf.len(), 42) comes first, and a failed assertion leaves buf as
\* the caller gave it
to_checksum_raw(a, buf, cid_opt) ==
    IF Len(buf) # 42
    THEN [panicked |-> TRUE, buf |-> buf, to_hash |-> <<>>, hash_hex |-> <<>>,
          str |-> <<>>, unchecked |-> [storage |-> None, upper |-> {}]]
    ELSE LET lower == WritePrefixedHex(a, buf)
             to_hash == ToHash(lower, cid_opt)
             hash_hex == HexEncode(keccak256(to_hash))
             out == UppercaseLoop(lower, hash_hex)
         IN  [panicked |-> FALSE, buf |-> out, to_hash |-> to_hash,
              hash_hex |-> hash_hex, str |-> out,
              unchecked |-> UncheckedAccesses(lower, cid_opt, hash_hex)]

\* Address::to_checksum: to_checksum_raw(&mut [0u8; 42], chain_id).to_string()
to_checksum(a, cid_opt) == to_checksum_raw(a, Zeros(42), cid_opt).str

\* the UTF-8 bytes of the character U+2026, the horizontal ellipsis
Ellipsis == <<226, 128, 166>>

\* the lower-case hex string written, not the checksum
fmt_lower_hex(a, alternate) ==
    LET checksum == Prefix0x \o HexEncode(a)
    IN  IF alternate
        THEN Slice(checksum, 0, 6) \o Ellipsis \o Slice(checksum, 38, 42)
        ELSE checksum

\* <Address as fmt::Display>::fmt: what is written to the formatter;
\* alternate is the '#' flag
fmt(a, alternate) ==
    LET checksum == to_checksum_raw(a, Zeros(42), None).str
    IN  IF alternate
        THEN Slice(checksum, 0, 6) \o Ellipsis \o Slice(checksum, 38, 42)
        ELSE checksum

----------------------------------------------------------------------------
(* Address: parsing *)

\* <Address as from_str>::from_str: optional "0x", then 40 hex digits
from_str(s) ==
    LET digits == IF StartsWith(s, Prefix0x) THEN Slice(s, 2, Len(s)) ELSE s
    IN  HexDecode(digits, 20)

HexError(inner) == <<"Hex", inner>>

InvalidChecksum == <<"InvalidChecksum">>

\* parse_checksummed with the chain id dropped in the recomputation
parse_checksummed_ignores_chain_id(s, cid_opt) ==
    IF ~StartsWith(s, Prefix0x)
    THEN [ok |-> FALSE, val |-> <<>>, err |-> HexError("InvalidStringLength"),
          calls |-> <<"starts_with">>]
    ELSE LET parsed == from_str(s)
         IN  IF ~parsed.ok
             THEN [ok |-> FALSE, val |-> <<>>, err |-> HexError(parsed.err),
                   calls |-> <<"starts_with", "parse">>]
             ELSE IF s = to_checksum_raw(parsed.val, Zeros(42), None).str
             THEN [ok |-> TRUE, val |-> parsed.val, err |-> <<>>,
                   calls |-> <<"starts_with", "parse", "to_checksum_raw">>]
             ELSE [ok |-> FALSE, val |-> <<>>, err |-> InvalidChecksum,
                   calls |-> <<"starts_with", "parse", "to_checksum_raw">>]

\* parse_checksummed comparing without regard to letter case
parse_checksummed_ignores_case(s, cid_opt) ==
    IF ~StartsWith(s, Prefix0x)
    THEN [ok |-> FALSE, val |-> <<>>, err |-> HexError("InvalidStringLength"),
          calls |-> <<"starts_with">>]
    ELSE LET parsed == from_str(s)
             c == to_checksum_raw(parsed.val, Zeros(42), cid_opt).str
         IN  IF ~parsed.ok
             THEN [ok |-> FALSE, val |-> <<>>, err |-> HexError(parsed.err),
                   calls |-> <<"starts_with", "parse">>]
             ELSE IF \A i \in 1..Len(s) : ToAsciiLowercase(s[i]) = ToAsciiLowercase(c[i])
             THEN [ok |-> TRUE, val |-> parsed.val, err |-> <<>>,
                   calls |-> <<"starts_with", "parse", "to_checksum_raw">>]
             ELSE [ok |-> FALSE, val |-> <<>>, err |-> InvalidChecksum,
                   calls |-> <<"starts_with", "parse", "to_checksum_raw">>]

\* parse_checksummed without the prefix check: the string goes straight to parse
parse_checksummed_no_prefix_check(s, cid_opt) ==
    LET parsed == from_str(s)
    IN  IF ~parsed.ok
        THEN [ok |-> FALSE, val |-> <<>>, err |-> HexError(parsed.err),
              calls |-> <<"parse">>]
        ELSE IF s = to_checksum_raw(parsed.val, Zeros(42), cid_opt).str
        THEN [ok |-> TRUE, val |-> parsed.val, err |-> <<>>,
              calls |-> <<"parse", "to_checksum_raw">>]
        ELSE [ok |-> FALSE, val |-> <<>>, err |-> InvalidChecksum,
              calls |-> <<"parse", "to_checksum_raw">>]

\* parse_checksummed reporting every failure of the string as a bad checksum
parse_checksummed_one_error_kind(s, cid_opt) ==
    IF ~StartsWith(s, Prefix0x)
    THEN [ok |-> FALSE, val |-> <<>>, err |-> InvalidChecksum,
          calls |-> <<"starts_with">>]
    ELSE LET parsed == from_str(s)
         IN  IF ~parsed.ok
             THEN [ok |-> FALSE, val |-> <<>>, err |-> InvalidChecksum,
                   calls |-> <<"starts_with", "parse">>]
             ELSE IF s = to_checksum_raw(parsed.val, Zeros(42), cid_opt).str
             THEN [ok |-> TRUE, val |-> parsed.val, err |-> <<>>,
                   calls |-> <<"starts_with", "parse", "to_checksum_raw">>]
             ELSE [ok |-> FALSE, val |-> <<>>, err |-> InvalidChecksum,
                   calls |-> <<"starts_with", "parse", "to_checksum_raw">>]

\* the inner fn of Address::parse_checksummed; calls lists the calls it made
parse_checksummed(s, cid_opt) ==
    IF ~StartsWith(s, Prefix0x)
    THEN [ok |-> FALSE, val |-> <<>>, err |-> HexError("InvalidStringLength"),
          calls |-> <<"starts_with">>]
    ELSE LET parsed == from_str(s)
         IN  IF ~parsed.ok
             THEN [ok |-> FALSE, val |-> <<>>, err |-> HexError(parsed.err),
                   calls |-> <<"starts_with", "parse">>]
             ELSE IF s = to_checksum_raw(parsed.val, Zeros(42), cid_opt).str
             THEN [ok |-> TRUE, val |-> parsed.val, err |-> <<>>,
                   calls |-> <<"starts_with", "parse", "to_checksum_raw">>]
             ELSE [ok |-> FALSE, val |-> <<>>, err |-> InvalidChecksum,
                   calls |-> <<"starts_with", "parse", "to_checksum_raw">>]

----------------------------------------------------------------------------
(* RLP of a u64, a 20-byte string and a list header (alloy_rlp) *)

RECURSIVE StripLeadingZeros(_)
StripLeadingZeros(n) ==
    IF n = <<>> THEN <<>>
    ELSE IF n[1] = 0 THEN StripLeadingZeros(Tail(n)) ELSE n

\* x < 0x80 for a u64 x
IsBelow0x80(n) == Len(StripLeadingZeros(n)) = 0 \/
                  (Len(StripLeadingZeros(n)) = 1 /\ StripLeadingZeros(n)[1] < 128)

\* <u64 as Encodable>::length
RlpU64Length(n) == IF IsBelow0x80(n) THEN 1 ELSE 1 + Len(StripLeadingZeros(n))

\* <u64 as Encodable>::encode
RlpU64Encode(n) ==
    IF IsZeroInt(n) THEN <<128>>
    ELSE IF IsBelow0x80(n) THEN <<n[Len(n)]>>
    ELSE <<128 + Len(StripLeadingZeros(n))>> \o StripLeadingZeros(n)

\* <Address as Encodable>::length and ::encode: a 20-byte string
RlpAddressLength(a) == 1 + Len(a)

RlpAddressEncode(a) == <<128 + Len(a)>> \o a

\* Header { list: true, payload_length }.encode
RlpListHeaderEncode(payload_length) ==
    IF payload_length < 56 THEN <<192 + payload_length>>
    ELSE <<247 + 1, payload_length>>

----------------------------------------------------------------------------
(* Address: CREATE and CREATE2 *)

\* const MAX_LEN: usize = 1 + (1 + 20) + 9
MAX_LEN == 1 + (1 + 20) + 9

\* create with a list header that counts the header byte itself
create_header_counts_itself(a, nonce) ==
    LET len == 22 + RlpU64Length(nonce)
        out0 == Zeros(MAX_LEN)
        out1 == [out0 EXCEPT ![1] = (192 + (len % 256)) % 256]
        out2 == [out1 EXCEPT ![2] = 128 + 20]
        out3 == CopyFromSlice(out2, 2, a)
        out4 == CopyFromSlice(out3, 22, RlpU64Encode(nonce))
        rlp == Slice(out4, 0, len)
    IN  [len |-> len, out |-> out4, rlp |-> rlp,
         address |-> from_word(keccak256(rlp))]

\* Address::create(&self, nonce), with the values of its locals
create(a, nonce) ==
    LET len == 22 + RlpU64Length(nonce)
        out0 == Zeros(MAX_LEN)
        out1 == [out0 EXCEPT ![1] = (192 + (len % 256) - 1) % 256]
        out2 == [out1 EXCEPT ![2] = 128 + 20]
        out3 == CopyFromSlice(out2, 2, a)
        out4 == CopyFromSlice(out3, 22, RlpU64Encode(nonce))
        rlp == Slice(out4, 0, len)
    IN  [len |-> len, out |-> out4, rlp |-> rlp,
         address |-> from_word(keccak256(rlp))]

\* tests::create_correctness::create_slow, the reference encoding
create_slow(a, nonce) ==
    LET out == RlpListHeaderEncode(RlpAddressLength(a) + RlpU64Length(nonce))
               \o RlpAddressEncode(a) \o RlpU64Encode(nonce)
    IN  [rlp |-> out, address |-> from_word(keccak256(out))]

\* _create2 with the salt and the init code hash copied in the other order
_create2_hash_before_salt(a, salt, init_code_hash) ==
    LET b0 == Zeros(85)
        b1 == [b0 EXCEPT ![1] = 255]
        b2 == CopyFromSlice(b1, 1, a)
        b3 == CopyFromSlice(b2, 21, init_code_hash)
        b4 == CopyFromSlice(b3, 53, salt)
    IN  [bytes |-> b4, address |-> from_word(keccak256(b4))]

\* Address::_create2(&self, salt, init_code_hash), with its 85-byte buffer
_create2(a, salt, init_code_hash) ==
    LET b0 == Zeros(85)
        b1 == [b0 EXCEPT ![1] = 255]
        b2 == CopyFromSlice(b1, 1, a)
        b3 == CopyFromSlice(b2, 21, salt)
        b4 == CopyFromSlice(b3, 53, init_code_hash)
    IN  [bytes |-> b4, address |-> from_word(keccak256(b4))]

\* Address::create2
create2(a, salt, init_code_hash) == _create2(a, salt, init_code_hash)

\* Address::create2_from_code
create2_from_code(a, salt, init_code) == _create2(a, salt, keccak256(init_code))

----------------------------------------------------------------------------
(* Inputs of parse_checksummed *)

FlipCase(c) ==
    IF IsAsciiLower(c) THEN c - 32 ELSE IF IsAsciiUpper(c) THEN c + 32 ELSE c

\* s with the character at (1-based) position i replaced by c
ReplaceAt(s, i, c) == [s EXCEPT ![i] = c]

FlipCaseAt(s, i) == ReplaceAt(s, i, FlipCase(s[i]))

\* the strings handed to parse_checksummed for address a and chain id option cid:
\* the canonical checksum, the checksum under every other chain id option, every
\* single-letter case flip, and malformed strings of each kind
ParseInputs(a, cid_opt) ==
    LET c == to_checksum(a, cid_opt)
        digits == Slice(c, 2, 42)
    IN  {[kind |-> "canonical", s |-> c]}
        \cup {[kind |-> "other_chain", s |-> to_checksum(a, g)] :
                g \in ChainIdOptions \ {cid_opt}}
        \cup {[kind |-> "flip", s |-> FlipCaseAt(c, i)] :
                i \in {j \in 3..42 : IsHexLetter(c[j])}}
        \cup {[kind |-> "recased", s |-> Prefix0x \o HexEncode(a)],
              [kind |-> "recased",
               s |-> Prefix0x \o [i \in 1..40 |-> MakeAsciiUppercase(digits[i])]]}
        \cup {[kind |-> "non_hex", s |-> ReplaceAt(c, i, g)] :
                i \in {3, 22, 42}, g \in {103, 71, 32}}
        \cup {[kind |-> "no_prefix", s |-> digits],
              [kind |-> "no_prefix", s |-> <<48, 88>> \o digits],
              [kind |-> "no_prefix", s |-> <<49, 120>> \o digits],
              [kind |-> "no_prefix", s |-> <<120, 48>> \o digits],
              [kind |-> "no_prefix", s |-> <<48>>],
              [kind |-> "no_prefix", s |-> <<>>]}
        \cup {[kind |-> "wrong_length", s |-> Slice(c, 0, 41)],
              [kind |-> "wrong_length", s |-> Slice(c, 0, 40)],
              [kind |-> "wrong_length", s |-> c \o <<48, 48>>],
              [kind |-> "wrong_length", s |-> c \o <<48>>],
              [kind |-> "wrong_length", s |-> Prefix0x]}

BufferLens == {41, 42, 43}

----------------------------------------------------------------------------
(* The state machine: an address and a chain id option are chosen; one     *)
(* method at a time is called on them, with every sample argument, and its *)
(* result is held until the caller drops it.  The methods are pure, so a   *)
(* call depends on nothing an earlier call did.                            *)

Init ==
    /\ self \in Addresses
    /\ chain_id \in ChainIdOptions
    /\ op = "none"
    /\ args = [none |-> TRUE]
    /\ res = [none |-> TRUE]

ToChecksumRawCall ==
    \E n \in BufferLens, fill \in BufferFills :
        /\ op = "none"
        /\ op' = "to_checksum_raw"
        /\ args' = [buf |-> Fill(n, fill)]
        /\ res' = to_checksum_raw(self, Fill(n, fill), chain_id)
        /\ UNCHANGED <<self, chain_id>>

ToChecksumCall ==
    /\ op = "none"
    /\ op' = "to_checksum"
    /\ args' = [none |-> TRUE]
    /\ res' = [str |-> to_checksum(self, chain_id)]
    /\ UNCHANGED <<self, chain_id>>

ParseChecksummedCall ==
    \E inp \in ParseInputs(self, chain_id) :
        /\ op = "none"
        /\ op' = "parse_checksummed"
        /\ args' = inp
        /\ res' = parse_checksummed(inp.s, chain_id)
        /\ UNCHANGED <<self, chain_id>>

FromWordCall ==
    \E w \in Words :
        /\ op = "none"
        /\ op' = "from_word"
        /\ args' = [word |-> w]
        /\ res' = [address |-> from_word(w)]
        /\ UNCHANGED <<self, chain_id>>

IntoWordCall ==
    /\ op = "none"
    /\ op' = "into_word"
    /\ args' = [none |-> TRUE]
    /\ res' = [word |-> into_word(self)]
    /\ UNCHANGED <<self, chain_id>>

CreateCall ==
    \E nonce \in Nonces :
        /\ op = "none"
        /\ op' = "create"
        /\ args' = [nonce |-> nonce]
        /\ res' = create(self, nonce)
        /\ UNCHANGED <<self, chain_id>>

Create2Call ==
    \E salt \in Words, init_code_hash \in Words :
        /\ op = "none"
        /\ op' = "create2"
        /\ args' = [salt |-> salt, init_code_hash |-> init_code_hash]
        /\ res' = create2(self, salt, init_code_hash)
        /\ UNCHANGED <<self, chain_id>>

Create2FromCodeCall ==
    \E salt \in Words, init_code \in Codes :
        /\ op = "none"
        /\ op' = "create2_from_code"
        /\ args' = [salt |-> salt, init_code |-> init_code]
        /\ res' = create2_from_code(self, salt, init_code)
        /\ UNCHANGED <<self, chain_id>>

FmtCall ==
    \E alternate \in BOOLEAN :
        /\ op = "none"
        /\ op' = "fmt"
        /\ args' = [alternate |-> alternate]
        /\ res' = [str |-> fmt(self, alternate)]
        /\ UNCHANGED <<self, chain_id>>

\* the caller is done with the result of the last call
Return ==
    /\ op # "none"
    /\ op' = "none"
    /\ args' = [none |-> TRUE]
    /\ res' = [none |-> TRUE]
    /\ UNCHANGED <<self, chain_id>>

Next ==
    \/ ToChecksumRawCall
    \/ ToChecksumCall
    \/ ParseChecksummedCall
    \/ FromWordCall
    \/ IntoWordCall
    \/ CreateCall
    \/ Create2Call
    \/ Create2FromCodeCall
    \/ FmtCall
    \/ Return

Spec == Init /\ [][Next]_vars

----------------------------------------------------------------------------
(* Properties of parse_checksummed *)

\* s is the canonical checksum of one of the sample addresses under cid_opt
IsCanonical(s, cid_opt) == \E a \in Addresses : s = to_checksum(a, cid_opt)

\* s is c with the case of exactly one of its hex letters flipped
IsSingleCaseFlip(s, c) ==
    /\ Len(s) = Len(c)
    /\ \E i \in 3..Len(c) : IsHexLetter(c[i]) /\ s = FlipCaseAt(c, i)

\* s has a character that is no hex digit after its first two characters
HasNonHexDigit(s) == \E i \in 3..Len(s) : HexVal(s[i]) < 0

\* C1: checksum round trip.  Whenever parse_checksummed is handed a string that
\* is the canonical checksum of some address under the chain id option of the
\* call, it succeeds, returns the address the plain case-insensitive parse of the
\* string returns, and to_checksum of that address under the same chain id option
\* is the string again.
C1_ChecksumRoundTrip ==
    (op = "parse_checksummed" /\ IsCanonical(args.s, chain_id)) =>
        /\ res.ok
        /\ from_str(args.s).ok
        /\ res.val = from_str(args.s).val
        /\ to_checksum(res.val, chain_id) = args.s

\* C1 witness: a canonical checksum with upper-case and lower-case letters, under
\* a chain id, was parsed
C1_Witness ==
    /\ op = "parse_checksummed"
    /\ args.kind = "canonical"
    /\ chain_id # None
    /\ IsCanonical(args.s, chain_id)
    /\ \E i \in 3..42 : IsAsciiUpper(args.s[i])
    /\ \E i \in 3..42 : IsAsciiLower(args.s[i])
    /\ res.ok

\* C2: checksum rejection.  Whenever parse_checksummed is handed a canonical
\* checksum in which the case of a single hex letter was flipped, under the chain
\* id option the checksum was made for, it fails with InvalidChecksum and returns
\* no address.
C2_ChecksumRejection ==
    (op = "parse_checksummed"
        /\ \E a \in Addresses : IsSingleCaseFlip(args.s, to_checksum(a, chain_id))) =>
        /\ ~res.ok
        /\ res.err = InvalidChecksum
        /\ res.val = <<>>

\* C2 witness: a lower-case letter of a canonical checksum was flipped to upper
\* case and the string was rejected
C2_Witness ==
    /\ op = "parse_checksummed"
    /\ args.kind = "flip"
    /\ IsSingleCaseFlip(args.s, to_checksum(self, chain_id))
    /\ \E i \in 3..42 : /\ IsAsciiLower(to_checksum(self, chain_id)[i])
                         /\ IsAsciiUpper(args.s[i])
    /\ ~res.ok

\* C3: the "0x" prefix is required.  Whenever the string does not start with "0x"
\* (a bare 40-digit address and the prefix "0X" included) parse_checksummed fails
\* with the Hex error, and it made no call but the prefix test: neither the hex
\* parse nor the checksum recomputation ran.
C3_PrefixRequired ==
    (op = "parse_checksummed" /\ ~StartsWith(args.s, Prefix0x)) =>
        /\ ~res.ok
        /\ res.err[1] = "Hex"
        /\ res.calls = <<"starts_with">>

\* C3 witness: a bare 40-digit address, which the plain parse accepts, was
\* rejected
C3_Witness ==
    /\ op = "parse_checksummed"
    /\ Len(args.s) = 40
    /\ from_str(args.s).ok
    /\ ~res.ok

\* C4: hex-level faults and checksum mismatch are kept apart.  InvalidChecksum is
\* returned exactly for the strings that start with "0x", parse as a 20-byte hex
\* address and differ from the recomputed canonical checksum; a string with a
\* non-hex character, a wrong length or no prefix fails with the Hex error.
C4_ErrorKinds ==
    op = "parse_checksummed" =>
        /\ (~res.ok /\ res.err = InvalidChecksum) <=>
              /\ StartsWith(args.s, Prefix0x)
              /\ from_str(args.s).ok
              /\ args.s # to_checksum(from_str(args.s).val, chain_id)
        /\ (HasNonHexDigit(args.s) \/ Len(args.s) # 42 \/ ~StartsWith(args.s, Prefix0x)) =>
              (~res.ok /\ res.err[1] = "Hex")

\* C4 witness: a string with the prefix and the right length but a non-hex
\* character was rejected
C4_Witness ==
    /\ op = "parse_checksummed"
    /\ StartsWith(args.s, Prefix0x)
    /\ Len(args.s) = 42
    /\ HasNonHexDigit(args.s)
    /\ ~res.ok

----------------------------------------------------------------------------
(* Properties of to_checksum_raw and to_checksum *)

\* C5: the casing rule.  In the string to_checksum_raw returns, the first two
\* characters are "0x" and, for every i in 0..40, character i + 2 is hex digit i
\* of the address, in upper case exactly when hex digit i of the hash of to_hash
\* is '8' or more: a letter whose hash digit is below '8' stays in lower case,
\* and a decimal digit is never changed.
C5_CasingRule ==
    (op = "to_checksum_raw" /\ ~res.panicked) =>
        /\ SubSeq(res.str, 1, 2) = Prefix0x
        /\ res.hash_hex = HexEncode(keccak256(res.to_hash))
        /\ \A i \in 0..39 :
            LET low == HexEncode(self)[i + 1]
                out == res.str[i + 3]
                set == HexVal(res.hash_hex[i + 1]) >= 8
            IN  /\ ToAsciiLowercase(out) = low
                /\ IsAsciiDigit(low) => out = low
                /\ IsHexLetter(low) => (IsAsciiUpper(out) <=> set)
                /\ IsHexLetter(low) => (IsAsciiLower(out) <=> ~set)

\* C5 witness: a checksum was computed in which a letter under a hash digit of
\* exactly '8' is in upper case, another letter is in lower case, and a decimal
\* digit stands under a hash digit of '8' or more
C5_Witness ==
    /\ op = "to_checksum_raw"
    /\ ~res.panicked
    /\ \E i \in 1..40 : res.hash_hex[i] = 56 /\ IsAsciiUpper(res.str[i + 2])
    /\ \E i \in 1..40 : res.hash_hex[i] < 56 /\ IsAsciiLower(res.str[i + 2])
    /\ \E i \in 1..40 : res.hash_hex[i] >= 56 /\ IsAsciiDigit(res.str[i + 2])

\* C6: the hash input.  With a chain id the bytes hashed are the decimal ASCII
\* digits of the chain id followed by "0x" and the 40 lower-case hex digits, and
\* nothing after them; with no chain id they are the 40 lower-case hex digits
\* alone.  No hashed hex digit is in upper case.
C6_HashInput ==
    (op = "to_checksum_raw" /\ ~res.panicked) =>
        /\ chain_id # None =>
              /\ res.to_hash = ItoaFormat(chain_id[1]) \o Prefix0x \o HexEncode(self)
              /\ Len(res.to_hash) = Len(ItoaFormat(chain_id[1])) + 42
        /\ chain_id = None =>
              /\ res.to_hash = HexEncode(self)
              /\ Len(res.to_hash) = 40
        /\ \A i \in 1..Len(res.to_hash) : ~IsAsciiUpper(res.to_hash[i])

\* C6 witness: the address of the doc examples was hashed under chain id 30, the
\* hash input starting "300xd8da" and being 44 bytes long, into a buffer that
\* held upper-case letters before the call
C6_Witness ==
    /\ op = "to_checksum_raw"
    /\ ~res.panicked
    /\ self = DocAddress
    /\ chain_id = Some(U64(0, 30))
    /\ args.buf = Fill(42, 70)
    /\ SubSeq(res.to_hash, 1, 8) = <<51, 48, 48, 120, 100, 56, 100, 97>>
    /\ Len(res.to_hash) = 44

\* C7: the checksum is a function of the address and the chain id option alone.
\* Whatever the 42-byte buffer held before the call, to_checksum_raw returns the
\* 42 characters it returns for a zeroed buffer, which are the final contents of
\* the buffer; and to_checksum returns what to_checksum_raw returns for any
\* prior contents of the buffer.
C7_PureFunction ==
    /\ (op = "to_checksum_raw" /\ ~res.panicked) =>
          /\ Len(res.str) = 42
          /\ res.str = res.buf
          /\ \A fill \in BufferFills :
                res.str = to_checksum_raw(self, Fill(42, fill), chain_id).str
    /\ op = "to_checksum" =>
          \A fill \in BufferFills :
                res.str = to_checksum_raw(self, Fill(42, fill), chain_id).str

\* C7 witness: a checksum under a chain id was written into a buffer that held
\* 0xff in every byte
C7_Witness ==
    /\ op = "to_checksum_raw"
    /\ ~res.panicked
    /\ chain_id # None
    /\ args.buf = Fill(42, 255)
    /\ Len(res.str) = 42

\* C18: to_checksum_raw aborts exactly when the buffer it is given is not 42
\* bytes long, and then the buffer holds what it held before the call; with a
\* 42-byte buffer it does not abort and returns 42 ASCII characters, for every
\* address and every chain id option.
C18_AbortsOnWrongLength ==
    op = "to_checksum_raw" =>
        /\ res.panicked <=> Len(args.buf) # 42
        /\ res.panicked => res.buf = args.buf /\ res.str = <<>>
        /\ ~res.panicked =>
              /\ Len(res.str) = 42
              /\ \A i \in 1..Len(res.str) : res.str[i] \in 0..127
              /\ Len(res.buf) = Len(args.buf)

\* C18 witness: the call aborted on a 43-byte buffer of 0xff bytes, under a
\* chain id, and the buffer is as it was
C18_Witness ==
    /\ op = "to_checksum_raw"
    /\ chain_id # None
    /\ args.buf = Fill(43, 255)
    /\ res.panicked
    /\ res.buf = Fill(43, 255)

\* C19: Display.  The plain format writes to_checksum(None), whatever chain id
\* is at hand; the alternate format writes the first 6 characters of that
\* checksum, the character U+2026 and the last 4 characters of the checksum, so
\* every letter it shows has the case it has in the checksum.
C19_Display ==
    op = "fmt" =>
        LET checksum == to_checksum(self, None)
        IN  /\ ~args.alternate => res.str = checksum
            /\ args.alternate =>
                  /\ Len(res.str) = 6 + 3 + 4
                  /\ SubSeq(res.str, 1, 6) = SubSeq(checksum, 1, 6)
                  /\ SubSeq(res.str, 1, 2) = Prefix0x
                  /\ SubSeq(res.str, 7, 9) = <<226, 128, 166>>
                  /\ SubSeq(res.str, 10, 13) = SubSeq(checksum, 39, 42)

\* C19 witness: the address of the doc examples was written in the alternate
\* format as "0xd8da", U+2026 and "6045" in the casing of its checksum, with a
\* chain id at hand under which these characters have another casing
C19_Witness ==
    /\ op = "fmt"
    /\ args.alternate
    /\ self = DocAddress
    /\ chain_id # None
    /\ SubSeq(to_checksum(self, chain_id), 1, 6) # SubSeq(to_checksum(self, None), 1, 6)
    /\ [i \in 1..6 |-> ToAsciiLowercase(res.str[i])] = <<48, 120, 100, 56, 100, 97>>
    /\ SubSeq(res.str, 7, 13) = <<226, 128, 166, 54, 48, 52, 53>>

----------------------------------------------------------------------------
(* Properties of the word conversions and of CREATE / CREATE2 *)

\* C8: word conversion.  from_word(w) is bytes 12..32 of w, whatever bytes 0..12
\* are; into_word is 12 zero bytes followed by the 20 address bytes.  So
\* from_word(into_word(a)) = a, and into_word(from_word(w)) = w exactly when the
\* first 12 bytes of w are zero.
C8_WordConversion ==
    /\ op = "from_word" =>
          /\ res.address = [i \in 1..20 |-> args.word[12 + i]]
          /\ \A pad \in BufferFills :
                from_word(Fill(12, pad) \o SubSeq(args.word, 13, 32)) = res.address
          /\ (into_word(res.address) = args.word) <=>
                (\A i \in 1..12 : args.word[i] = 0)
    /\ op = "into_word" =>
          /\ res.word = Zeros(12) \o self
          /\ Len(res.word) = 32
          /\ from_word(res.word) = self

\* C8 witness: an address was taken from a word whose first 12 bytes are not all
\* zero, so that padding it again does not give the word back
C8_Witness ==
    /\ op = "from_word"
    /\ \E i \in 1..12 : args.word[i] # 0
    /\ Len(res.address) = 20
    /\ into_word(res.address) # args.word

\* C9: CREATE.  For every sender and nonce, create(nonce) is the address the
\* reference encoder gives: the bytes hashed are the RLP list of the 20-byte
\* sender string and the minimal big-endian nonce, under a single-byte list
\* header 0xc0 + 21 + rlp_length(nonce) (so at most 0xf7), and they are exactly
\* len <= MAX_LEN = 31 bytes long.
C9_CreateMatchesReference ==
    op = "create" =>
        /\ res.address = create_slow(self, args.nonce).address
        /\ res.rlp = create_slow(self, args.nonce).rlp
        /\ res.rlp = <<192 + 21 + RlpU64Length(args.nonce)>> \o <<148>> \o self
                     \o RlpU64Encode(args.nonce)
        /\ Len(res.rlp) = res.len
        /\ res.len <= MAX_LEN
        /\ MAX_LEN = 31
        /\ res.rlp[1] >= 192 /\ res.rlp[1] <= 247
        /\ res.rlp[1] - 192 = Len(res.rlp) - 1

\* C9 witness: create was called with the nonce 2^64 - 1, whose encoding takes
\* the whole 9 bytes, so that len = 31
C9_Witness ==
    /\ op = "create"
    /\ args.nonce = U64Max
    /\ res.len = 31
    /\ res.out[31] = 255
    /\ res.address = create_slow(self, args.nonce).address

\* C10: CREATE2.  create2(salt, init_code_hash) is from_word of the hash of the
\* 85 bytes 0xff, sender (20), salt (32), init_code_hash (32); and
\* create2_from_code(salt, code) is create2(salt, keccak256(code)), also for the
\* empty code.
C10_Create2 ==
    /\ op = "create2" =>
          /\ res.bytes = <<255>> \o self \o args.salt \o args.init_code_hash
          /\ Len(res.bytes) = 85
          /\ res.address = from_word(keccak256(res.bytes))
    /\ op = "create2_from_code" =>
          /\ res.bytes = <<255>> \o self \o args.salt \o keccak256(args.init_code)
          /\ Len(res.bytes) = 85
          /\ res.address = from_word(keccak256(res.bytes))
          /\ res.address = create2(self, args.salt, keccak256(args.init_code)).address

\* C10 witness: create2_from_code was called with the empty init code and a salt
\* that differs from the hash of the code
C10_Witness ==
    /\ op = "create2_from_code"
    /\ args.init_code = <<>>
    /\ args.salt # keccak256(args.init_code)
    /\ Len(res.bytes) = 85
    /\ res.address = create2(self, args.salt, keccak256(<<>>)).address

----------------------------------------------------------------------------
(* ABI: tokens (crates/sol-types/src/coder/token.rs) and the SolType       *)
(* descriptors (crates/sol-types/src/types/data_type.rs).                  *)
(*                                                                         *)
(* Representation.  A token is a record with a field k: a word token holds *)
(* a 32-byte word w, a packed-sequence token a byte string bytes, a        *)
(* fixed-sequence token its children ts and whether it is a tuple, a       *)
(* dynamic-sequence token its children ts.  A SolType is a record with a   *)
(* field k naming the Solidity type.  The Rust value of bool is a BOOLEAN, *)
(* of uintN with N <= 24 a number, of uint256 its 32 big-endian bytes, of  *)
(* address its 20 bytes, of bytesN its N bytes, of bytes a byte string, of *)
(* an array, a fixed array and a tuple the sequence of the values of its   *)
(* elements.                                                               *)

WordToken(w) == [k |-> "word", w |-> w]

PackedSeqToken(bytes) == [k |-> "packed", bytes |-> bytes]

FixedSeqToken(ts, is_tuple) == [k |-> "fixed", ts |-> ts, is_tuple |-> is_tuple]

DynSeqToken(ts) == [k |-> "dyn", ts |-> ts]

SolBool == [k |-> "bool"]

SolUint(bits) == [k |-> "uint", bits |-> bits]

SolAddress == [k |-> "address"]

SolFixedBytes(n) == [k |-> "fixed_bytes", n |-> n]

SolBytes == [k |-> "bytes"]

SolArray(elem) == [k |-> "array", elem |-> elem]

SolFixedArray(elem, n) == [k |-> "fixed_array", elem |-> elem, n |-> n]

SolTuple(elems) == [k |-> "tuple", elems |-> elems]

\* a number below 2^31 as a 32-byte big-endian word
WordOfNat(n) ==
    Zeros(28) \o <<(n \div 16777216) % 256, (n \div 65536) % 256,
                   (n \div 256) % 256, n % 256>>

\* the number held by the last nbytes <= 3 bytes of a word
NatOfLowBytes(w, nbytes) ==
    IF nbytes = 1 THEN w[32]
    ELSE IF nbytes = 2 THEN w[31] * 256 + w[32]
    ELSE w[30] * 65536 + w[31] * 256 + w[32]

IsZeroes(bytes) == \A i \in 1..Len(bytes) : bytes[i] = 0

RECURSIVE SumSeq(_, _)

\* ns[i] + ns[i + 1] + ...
SumSeq(ns, i) == IF i > Len(ns) THEN 0 ELSE ns[i] + SumSeq(ns, i + 1)

RECURSIVE Concat(_, _)

\* seqs[i] \o seqs[i + 1] \o ...
Concat(seqs, i) == IF i > Len(seqs) THEN <<>> ELSE seqs[i] \o Concat(seqs, i + 1)

RECURSIVE JoinNames(_, _)

\* names[i], names[i + 1], ... separated by commas
JoinNames(names, i) ==
    IF i > Len(names) THEN ""
    ELSE IF i = Len(names) THEN names[i]
    ELSE names[i] \o "," \o JoinNames(names, i + 1)

RECURSIVE sol_type_name(_)

\* SolType::sol_type_name
sol_type_name(ty) ==
    CASE ty.k = "bool" -> "bool"
      [] ty.k = "uint" -> "uint" \o ToString(ty.bits)
      [] ty.k = "address" -> "address"
      [] ty.k = "fixed_bytes" -> "bytes" \o ToString(ty.n)
      [] ty.k = "bytes" -> "bytes"
      [] ty.k = "array" -> sol_type_name(ty.elem) \o "[]"
      [] ty.k = "fixed_array" -> sol_type_name(ty.elem) \o "[" \o ToString(ty.n) \o "]"
      [] ty.k = "tuple" ->
            "(" \o JoinNames([i \in 1..Len(ty.elems) |-> sol_type_name(ty.elems[i])], 1)
                \o ")"

RECURSIVE ENCODED_SIZE(_)

\* SolType::ENCODED_SIZE: Some(bytes) iff the type is fully static
ENCODED_SIZE(ty) ==
    CASE ty.k \in {"bool", "uint", "address", "fixed_bytes"} -> Some(32)
      [] ty.k \in {"bytes", "array"} -> None
      [] ty.k = "fixed_array" ->
            LET e == ENCODED_SIZE(ty.elem)
            IN  IF e = None THEN None ELSE Some(e[1] * ty.n)
      [] ty.k = "tuple" ->
            LET sizes == [i \in 1..Len(ty.elems) |-> ENCODED_SIZE(ty.elems[i])]
            IN  IF \E i \in 1..Len(sizes) : sizes[i] = None THEN None
                ELSE Some(SumSeq([i \in 1..Len(sizes) |-> sizes[i][1]], 1))

\* SolType::DYNAMIC
DYNAMIC(ty) == ENCODED_SIZE(ty) = None

RECURSIVE tokenize(_, _)

\* SolType::tokenize
tokenize(ty, rust) ==
    CASE ty.k = "bool" -> WordToken(WordOfNat(IF rust THEN 1 ELSE 0))
      [] ty.k = "uint" ->
            IF ty.bits = 256 THEN WordToken(rust) ELSE WordToken(WordOfNat(rust))
      [] ty.k = "address" -> WordToken(into_word(rust))
      [] ty.k = "fixed_bytes" -> WordToken(rust \o Zeros(32 - ty.n))
      [] ty.k = "bytes" -> PackedSeqToken(rust)
      [] ty.k = "array" ->
            DynSeqToken([i \in 1..Len(rust) |-> tokenize(ty.elem, rust[i])])
      [] ty.k = "fixed_array" ->
            FixedSeqToken([i \in 1..ty.n |-> tokenize(ty.elem, rust[i])], FALSE)
      [] ty.k = "tuple" ->
            FixedSeqToken([i \in 1..Len(ty.elems) |-> tokenize(ty.elems[i], rust[i])],
                          TRUE)

RECURSIVE valid_token(_, _)

\* SolType::valid_token
valid_token(ty, token) ==
    CASE ty.k = "bool" ->
            IsZeroes(Slice(token.w, 0, 31)) /\ token.w[32] \in {0, 1}
      [] ty.k = "uint" ->
            ty.bits = 256 \/ IsZeroes(Slice(token.w, 0, 32 - ty.bits \div 8))
      [] ty.k = "address" -> IsZeroes(Slice(token.w, 0, 12))
      [] ty.k = "fixed_bytes" -> IsZeroes(Slice(token.w, ty.n, 32))
      [] ty.k = "bytes" -> TRUE
      [] ty.k \in {"array", "fixed_array"} ->
            \A i \in 1..Len(token.ts) : valid_token(ty.elem, token.ts[i])
      [] ty.k = "tuple" ->
            \A i \in 1..Len(token.ts) : valid_token(ty.elems[i], token.ts[i])

RECURSIVE detokenize(_, _)

\* SolType::detokenize
detokenize(ty, token) ==
    CASE ty.k = "bool" -> ~IsZeroes(token.w)
      [] ty.k = "uint" ->
            IF ty.bits = 256 THEN token.w
            ELSE NatOfLowBytes(token.w, ty.bits \div 8)
      [] ty.k = "address" -> from_word(token.w)
      [] ty.k = "fixed_bytes" -> Slice(token.w, 0, ty.n)
      [] ty.k = "bytes" -> token.bytes
      [] ty.k \in {"array", "fixed_array"} ->
            [i \in 1..Len(token.ts) |-> detokenize(ty.elem, token.ts[i])]
      [] ty.k = "tuple" ->
            [i \in 1..Len(token.ts) |-> detokenize(ty.elems[i], token.ts[i])]

----------------------------------------------------------------------------
(* ABI: the encoder (crates/sol-types/src/coder/encoder.rs and token.rs).  *)
(* An append to the writer is the byte string appended.                    *)

RECURSIVE is_dynamic(_)

\* TokenType::DYNAMIC of the token: a packed or a dynamic sequence, or a fixed
\* sequence with a dynamic child
is_dynamic(token) ==
    CASE token.k = "word" -> FALSE
      [] token.k = "packed" -> TRUE
      [] token.k = "dyn" -> TRUE
      [] token.k = "fixed" -> \E i \in 1..Len(token.ts) : is_dynamic(token.ts[i])

RECURSIVE head_words(_)

\* TokenType::head_words: 1 if dynamic, else the sum over the children
head_words(token) ==
    IF is_dynamic(token) THEN 1
    ELSE IF token.k = "word" THEN 1
    ELSE SumSeq([i \in 1..Len(token.ts) |-> head_words(token.ts[i])], 1)

RECURSIVE tail_words(_)

\* TokenType::tail_words: the words tail_append writes; for a sequence, the
\* total words of its children, after the length word if it is an array
tail_words(token) ==
    CASE token.k = "word" -> 0
      [] token.k = "packed" -> 1 + (Len(token.bytes) + 31) \div 32
      [] token.k \in {"dyn", "fixed"} ->
            IF ~is_dynamic(token) THEN 0
            ELSE (IF token.k = "dyn" THEN 1 ELSE 0)
                 + SumSeq([i \in 1..Len(token.ts) |->
                            head_words(token.ts[i]) + tail_words(token.ts[i])], 1)

\* TokenType::total_words
total_words(token) == head_words(token) + tail_words(token)

\* the byte block right-padded with zeros to a multiple of 32 bytes
PadRight32(bytes) == bytes \o Zeros((32 - (Len(bytes) % 32)) % 32)

RECURSIVE head_append(_, _)

\* TokenType::head_append: a static token writes the concatenated heads of its
\* children, a dynamic token the offset the encoder supplies
head_append(token, offset) ==
    IF is_dynamic(token) THEN WordOfNat(offset)
    ELSE IF token.k = "word" THEN token.w
    ELSE Concat([i \in 1..Len(token.ts) |-> head_append(token.ts[i], 0)], 1)

\* the two passes of the encoder over the children ts of a sequence, whose
\* tails are given: the heads, each offset being the total head length plus the
\* length of the tails before it, counted from the start of this sequence; then
\* the tails
AppendHeadTail(ts, tails) ==
    LET heads_len == 32 * SumSeq([i \in 1..Len(ts) |-> head_words(ts[i])], 1)
        offset(i) == heads_len + SumSeq([j \in 1..(i - 1) |-> Len(tails[j])], 1)
    IN  Concat([i \in 1..Len(ts) |-> head_append(ts[i], offset(i))], 1)
            \o Concat(tails, 1)

RECURSIVE tail_append(_)

\* TokenType::tail_append: a packed sequence writes its length and its padded
\* bytes, a dynamic array its length and the encoding of its children, a dynamic
\* fixed sequence the encoding of its children; a static token writes nothing
tail_append(token) ==
    CASE token.k = "word" -> <<>>
      [] token.k = "packed" -> WordOfNat(Len(token.bytes)) \o PadRight32(token.bytes)
      [] token.k \in {"dyn", "fixed"} ->
            IF ~is_dynamic(token) THEN <<>>
            ELSE (IF token.k = "dyn" THEN WordOfNat(Len(token.ts)) ELSE <<>>)
                 \o AppendHeadTail(token.ts,
                        [i \in 1..Len(token.ts) |-> tail_append(token.ts[i])])

\* Encoder::append_head_tail over the children of a top-level sequence
EncodeSequence(ts) ==
    AppendHeadTail(ts, [i \in 1..Len(ts) |-> tail_append(ts[i])])

\* abi::encode_sequence: the sequence itself is the top-level object
encode_sequence(tokens) == EncodeSequence(tokens.ts)

\* abi::encode: the token placed in a 1-element sequence
encode(token) == EncodeSequence(<<token>>)

\* abi::encode_params: encode_sequence for a tuple, encode for anything else
encode_params(tokens) ==
    IF tokens.k = "fixed" /\ tokens.is_tuple
    THEN encode_sequence(tokens)
    ELSE encode(tokens)

----------------------------------------------------------------------------
(* ABI: the decoder (crates/sol-types/src/coder/decoder.rs and token.rs).  *)
(* A position is a byte offset into the buffer; root is the position where *)
(* the current sequence starts.  The token shape to read is given by the   *)
(* SolType whose token type it is.                                         *)

Ok(val) == [ok |-> TRUE, val |-> val]

Err(err) == [ok |-> FALSE, err |-> err]

BufferOverrun == <<"BufferOverrun">>

Overflow == <<"Overflow">>

Other(message) == <<"Other", message>>

TypeCheckFail(expected_type, data) == <<"TypeCheckFail", expected_type, data>>

\* the largest number the model holds: every offset or length from 2^31 on is
\* read as this number, which is beyond every buffer of the model
UsizeCap == 2147483647

\* the word at position pos
take_word(data, pos) ==
    IF pos + 32 > Len(data) THEN Err(BufferOverrun)
    ELSE Ok(Slice(data, pos, pos + 32))

\* the word at position pos as an offset or a length
take_usize(data, pos) ==
    LET word == take_word(data, pos)
    IN  IF ~word.ok THEN word
        ELSE IF ~IsZeroes(Slice(word.val, 0, 28)) THEN Err(Overflow)
        ELSE IF word.val[29] >= 128 THEN Ok(UsizeCap)
        ELSE Ok(word.val[29] * 16777216 + word.val[30] * 65536
                + word.val[31] * 256 + word.val[32])

\* the types of the children of a sequence type holding n children
ChildTypes(ty, n) ==
    IF ty.k = "tuple" THEN ty.elems ELSE [i \in 1..n |-> ty.elem]

\* the bytes the head of a token of the type takes
HeadSize(ty) == IF DYNAMIC(ty) THEN 32 ELSE ENCODED_SIZE(ty)[1]

\* the position of the head of child i of a sequence whose heads start at pos
ChildPos(tys, i, pos) == pos + SumSeq([j \in 1..(i - 1) |-> HeadSize(tys[j])], 1)

\* the results of reading the children in order, stopped at the first failure
CollectChildren(results) ==
    IF \E i \in 1..Len(results) : ~results[i].ok
    THEN LET first == CHOOSE i \in 1..Len(results) :
                        /\ ~results[i].ok
                        /\ \A j \in 1..(i - 1) : results[j].ok
         IN  Err(results[first].err)
    ELSE Ok([i \in 1..Len(results) |-> results[i].val])

RECURSIVE decode_from(_, _, _, _)

\* TokenType::decode_from: the token read at the head cursor pos; the cursor
\* moves on by the head size of the type
decode_from(ty, data, root, pos) ==
    CASE ty.k \in {"bool", "uint", "address", "fixed_bytes"} ->
            LET word == take_word(data, pos)
            IN  IF ~word.ok THEN word ELSE Ok(WordToken(word.val))
      [] ty.k \in {"fixed_array", "tuple"} /\ ~DYNAMIC(ty) ->
            LET tys == ChildTypes(ty, IF ty.k = "tuple" THEN 0 ELSE ty.n)
                ts == CollectChildren([i \in 1..Len(tys) |->
                        decode_from(tys[i], data, root, ChildPos(tys, i, pos))])
            IN  IF ~ts.ok THEN ts ELSE Ok(FixedSeqToken(ts.val, ty.k = "tuple"))
      [] ty.k \in {"fixed_array", "tuple"} /\ DYNAMIC(ty) ->
            LET tys == ChildTypes(ty, IF ty.k = "tuple" THEN 0 ELSE ty.n)
                offset == take_usize(data, pos)
            IN  IF ~offset.ok THEN offset
                ELSE IF offset.val > Len(data) - root THEN Err(BufferOverrun)
                ELSE LET child == root + offset.val
                         ts == CollectChildren([i \in 1..Len(tys) |->
                                 decode_from(tys[i], data, child,
                                             ChildPos(tys, i, child))])
                     IN  IF ~ts.ok THEN ts
                         ELSE Ok(FixedSeqToken(ts.val, ty.k = "tuple"))
      [] ty.k = "array" ->
            LET offset == take_usize(data, pos)
            IN  IF ~offset.ok THEN offset
                ELSE IF offset.val > Len(data) - root THEN Err(BufferOverrun)
                ELSE LET len == take_usize(data, root + offset.val)
                         child == root + offset.val + 32
                     IN  IF ~len.ok THEN len
                         ELSE IF len.val > (Len(data) - child) \div 32
                         THEN Err(BufferOverrun)
                         ELSE LET tys == ChildTypes(ty, len.val)
                                  ts == CollectChildren([i \in 1..Len(tys) |->
                                          decode_from(tys[i], data, child,
                                                      ChildPos(tys, i, child))])
                              IN  IF ~ts.ok THEN ts ELSE Ok(DynSeqToken(ts.val))
      [] ty.k = "bytes" ->
            LET offset == take_usize(data, pos)
            IN  IF ~offset.ok THEN offset
                ELSE IF offset.val > Len(data) - root THEN Err(BufferOverrun)
                ELSE LET len == take_usize(data, root + offset.val)
                         child == root + offset.val + 32
                     IN  IF ~len.ok THEN len
                         ELSE IF len.val > Len(data) - child THEN Err(BufferOverrun)
                         ELSE Ok(PackedSeqToken(Slice(data, child, child + len.val)))

\* abi::decode_sequence: the children of the sequence read from the start of
\* the buffer
decode_sequence(ty, data, validate) ==
    LET tys == ChildTypes(ty, IF ty.k = "tuple" THEN 0 ELSE ty.n)
        ts == CollectChildren([i \in 1..Len(tys) |->
                decode_from(tys[i], data, 0, ChildPos(tys, i, 0))])
    IN  IF ~ts.ok THEN ts ELSE Ok(FixedSeqToken(ts.val, ty.k = "tuple"))

\* abi::decode: decode_sequence of the 1-element sequence, then its element
decode(ty, data, validate) ==
    LET ts == decode_sequence(SolTuple(<<ty>>), data, validate)
    IN  IF ~ts.ok THEN ts ELSE Ok(ts.val.ts[1])

\* abi::decode_params: decode_sequence for a tuple, decode for anything else
decode_params(ty, data, validate) ==
    IF ty.k = "tuple"
    THEN decode_sequence(ty, data, validate)
    ELSE decode(ty, data, validate)

----------------------------------------------------------------------------
(* SolType: the provided methods (crates/sol-types/src/types/ty.rs).  A    *)
(* decoding result carries, next to the Result, the calls made in order    *)
(* and the token passed to check_decode, if one was.                       *)

\* Error::type_check_fail_token
type_check_fail_token(token, expected_type) == TypeCheckFail(expected_type, token)

\* SolType::type_check
type_check(ty, token) ==
    IF valid_token(ty, token)
    THEN Ok(<<>>)
    ELSE Err(type_check_fail_token(token, sol_type_name(ty)))

\* the token detokenized whatever validate is
check_decode_skips_type_check(ty, token, validate) ==
    [ok |-> TRUE, val |-> detokenize(ty, token), calls |-> <<"detokenize">>]

\* the token type-checked whatever validate is
check_decode_always_validates(ty, token, validate) ==
    LET checked == type_check(ty, token)
    IN  IF ~checked.ok
        THEN [ok |-> FALSE, err |-> checked.err, calls |-> <<"type_check">>]
        ELSE [ok |-> TRUE, val |-> detokenize(ty, token),
              calls |-> <<"type_check", "detokenize">>]

\* check_decode: if validate { T::type_check(&token)?; } Ok(T::detokenize(token))
check_decode(ty, token, validate) ==
    IF validate
    THEN LET checked == type_check(ty, token)
         IN  IF ~checked.ok
             THEN [ok |-> FALSE, err |-> checked.err, calls |-> <<"type_check">>]
             ELSE [ok |-> TRUE, val |-> detokenize(ty, token),
                   calls |-> <<"type_check", "detokenize">>]
    ELSE [ok |-> TRUE, val |-> detokenize(ty, token), calls |-> <<"detokenize">>]

\* decoded.and_then(|t| check_decode::<Self>(t, validate)), decoded being the
\* result of the abi:: function named by the first call
AndThenCheckDecode(ty, call, decoded, validate) ==
    IF ~decoded.ok
    THEN [ok |-> FALSE, err |-> decoded.err, calls |-> <<call>>, token |-> None]
    ELSE LET checked == check_decode(ty, decoded.val, validate)
         IN  IF checked.ok
             THEN [ok |-> TRUE, val |-> checked.val,
                   calls |-> <<call>> \o checked.calls, token |-> Some(decoded.val)]
             ELSE [ok |-> FALSE, err |-> checked.err,
                   calls |-> <<call>> \o checked.calls, token |-> Some(decoded.val)]

\* SolType::abi_encoded_size, the provided body: Self::ENCODED_SIZE.unwrap()
abi_encoded_size(ty, rust) == ENCODED_SIZE(ty)[1]

\* SolType::abi_encode
abi_encode(ty, rust) == encode(tokenize(ty, rust))

\* SolType::abi_encode_sequence
abi_encode_sequence(ty, rust) == encode_sequence(tokenize(ty, rust))

\* the value encoded as a single token, not as parameters
abi_encode_params_as_single(ty, rust) == encode(tokenize(ty, rust))

\* SolType::abi_encode_params
abi_encode_params(ty, rust) == encode_params(tokenize(ty, rust))

\* the buffer decoded as parameters, not as a single token
abi_decode_as_params(ty, data, validate) ==
    AndThenCheckDecode(ty, "decode_params", decode_params(ty, data, validate), validate)

\* SolType::abi_decode
abi_decode(ty, data, validate) ==
    AndThenCheckDecode(ty, "decode", decode(ty, data, validate), validate)

\* SolType::abi_decode_params
abi_decode_params(ty, data, validate) ==
    AndThenCheckDecode(ty, "decode_params", decode_params(ty, data, validate), validate)

\* SolType::abi_decode_sequence
abi_decode_sequence(ty, data, validate) ==
    AndThenCheckDecode(ty, "decode_sequence", decode_sequence(ty, data, validate),
                       validate)

----------------------------------------------------------------------------
(* SolEvent (crates/sol-types/src/types/event/mod.rs).  An event type is a *)
(* record of its SIGNATURE (the bytes of the str), its ANONYMOUS flag, the *)
(* types of its indexed parameters and the types of its data parameters.   *)
(* An event value holds its type, the values of its indexed parameters and *)
(* the values of its data parameters.                                      *)

SolEventType(signature, anonymous, indexed, data) ==
    [SIGNATURE |-> signature, ANONYMOUS |-> anonymous, indexed |-> indexed,
     data |-> data]

\* SolEvent::SIGNATURE_HASH
SIGNATURE_HASH(E) == keccak256(E.SIGNATURE)

\* SolEvent::DataTuple
DataTuple(E) == SolTuple(E.data)

\* SolEvent::TopicList: the signature hash, unless the event is anonymous, then
\* the indexed parameters
TopicList(E) ==
    SolTuple((IF E.ANONYMOUS THEN <<>> ELSE <<SolFixedBytes(32)>>) \o E.indexed)

\* TopicList::COUNT
COUNT(E) == Len(TopicList(E).elems)

\* SolEvent::new
new(E, topics, data) ==
    [event |-> E,
     indexed |-> IF E.ANONYMOUS THEN topics ELSE Slice(topics, 1, Len(topics)),
     body |-> data]

\* SolEvent::tokenize_body
tokenize_body(ev) == tokenize(DataTuple(ev.event), ev.body)

\* SolEvent::topics
topics(ev) ==
    (IF ev.event.ANONYMOUS THEN <<>> ELSE <<SIGNATURE_HASH(ev.event)>>) \o ev.indexed

\* SolEvent::abi_encoded_size
SolEvent_abi_encoded_size(ev) ==
    IF ENCODED_SIZE(DataTuple(ev.event)) # None
    THEN ENCODED_SIZE(DataTuple(ev.event))[1]
    ELSE total_words(tokenize_body(ev)) * 32

\* the encoding written over the buffer instead of appended to it
encode_data_to_overwrites(ev, out) ==
    [reserve |-> SolEvent_abi_encoded_size(ev),
     out |-> encode_sequence(tokenize_body(ev))]

\* SolEvent::encode_data_to: the capacity asked for and the buffer afterwards
encode_data_to(ev, out) ==
    [reserve |-> SolEvent_abi_encoded_size(ev),
     out |-> out \o encode_sequence(tokenize_body(ev))]

\* SolEvent::encode_data
encode_data(ev) == encode_data_to(ev, <<>>).out

\* SolEvent::encode_topics_raw: the topics written over the first COUNT words of
\* out, or an error when out is shorter
encode_topics_raw(ev, out) ==
    IF Len(out) < COUNT(ev.event)
    THEN Err(Overflow)
    ELSE LET tys == TopicList(ev.event).elems
             vals == topics(ev)
         IN  Ok([i \in 1..Len(out) |->
                    IF i <= COUNT(ev.event) THEN tokenize(tys[i], vals[i]) ELSE out[i]])

\* the buffer one word short
encode_topics_short_buffer(ev) ==
    LET out == [i \in 1..(COUNT(ev.event) - 1) |-> WordToken(Zeros(32))]
        raw == encode_topics_raw(ev, out)
    IN  IF ~raw.ok
        THEN [panicked |-> TRUE, out |-> <<>>]
        ELSE [panicked |-> FALSE, out |-> raw.val]

\* the zeroed buffer returned as it was allocated
encode_topics_zeroed(ev) ==
    [panicked |-> FALSE, out |-> [i \in 1..COUNT(ev.event) |-> WordToken(Zeros(32))]]

\* SolEvent::encode_topics: out = vec![WordToken(B256::ZERO); COUNT];
\* self.encode_topics_raw(&mut out).unwrap(); out
encode_topics(ev) ==
    LET out == [i \in 1..COUNT(ev.event) |-> WordToken(Zeros(32))]
        raw == encode_topics_raw(ev, out)
    IN  IF ~raw.ok
        THEN [panicked |-> TRUE, out |-> <<>>]
        ELSE [panicked |-> FALSE, out |-> raw.val]

\* <TopicList as TopicList>::detokenize: the topics, which must be COUNT words,
\* detokenized one by one
TopicList_detokenize(E, words) ==
    IF Len(words) # COUNT(E)
    THEN Err(Other("topic list length mismatch"))
    ELSE Ok([i \in 1..COUNT(E) |->
                detokenize(TopicList(E).elems[i], WordToken(words[i]))])

\* SolEvent::decode_topics
decode_topics(E, words) == TopicList_detokenize(E, words)

\* SolEvent::abi_decode_data
abi_decode_data(E, data, validate) == abi_decode_sequence(DataTuple(E), data, validate)

\* the data decoded before the topics
decode_log_data_first(E, words, data, validate) ==
    LET body == abi_decode_data(E, data, validate)
    IN  IF ~body.ok
        THEN [ok |-> FALSE, err |-> body.err, calls |-> <<"abi_decode_data">>]
        ELSE LET decoded == decode_topics(E, words)
             IN  IF ~decoded.ok
                 THEN [ok |-> FALSE, err |-> decoded.err,
                       calls |-> <<"abi_decode_data", "decode_topics">>]
                 ELSE [ok |-> TRUE, val |-> new(E, decoded.val, body.val),
                       calls |-> <<"abi_decode_data", "decode_topics", "new">>]

\* SolEvent::decode_log: let topics = Self::decode_topics(topics)?;
\* let body = Self::abi_decode_data(data, validate)?; Ok(Self::new(topics, body))
decode_log(E, words, data, validate) ==
    LET decoded == decode_topics(E, words)
    IN  IF ~decoded.ok
        THEN [ok |-> FALSE, err |-> decoded.err, calls |-> <<"decode_topics">>]
        ELSE LET body == abi_decode_data(E, data, validate)
             IN  IF ~body.ok
                 THEN [ok |-> FALSE, err |-> body.err,
                       calls |-> <<"decode_topics", "abi_decode_data">>]
                 ELSE [ok |-> TRUE, val |-> new(E, decoded.val, body.val),
                       calls |-> <<"decode_topics", "abi_decode_data", "new">>]

----------------------------------------------------------------------------
(* ABI: sample types, values, events and buffers *)

\* how many sample Solidity types, byte strings and event types are drawn, and
\* the longest sample array
NumSolTypes == 15
NumByteStrings == 4
NumEvents == 6
MaxArrayLen == 2

Hello == <<104, 101, 108, 108, 111>>

\* the empty string, "hello", 32 bytes, 33 bytes, then k bytes
ByteStringSample(k) ==
    CASE k = 0 -> <<>>
      [] k = 1 -> Hello
      [] k = 2 -> [i \in 1..32 |-> 160 + i]
      [] k = 3 -> [i \in 1..33 |-> 200 + i]
      [] OTHER -> Fill(k, 7)

ByteStrings == {ByteStringSample(k) : k \in 0..(NumByteStrings - 1)}

\* the tuple of scenario S5
BytesAndUint256 == SolTuple(<<SolBytes, SolUint(256)>>)

SolTypeSample(k) ==
    CASE k = 0 -> SolBool
      [] k = 1 -> SolUint(8)
      [] k = 2 -> SolUint(16)
      [] k = 3 -> SolUint(256)
      [] k = 4 -> SolAddress
      [] k = 5 -> SolFixedBytes(4)
      [] k = 6 -> SolBytes
      [] k = 7 -> SolFixedArray(SolBool, 2)
      [] k = 8 -> BytesAndUint256
      [] k = 9 -> SolArray(SolUint(8))
      [] k = 10 -> SolArray(SolBytes)
      [] k = 11 -> SolTuple(<<SolUint(8), SolTuple(<<SolBytes, SolBool>>),
                              SolFixedArray(SolBool, 2)>>)
      [] k = 12 -> SolFixedArray(SolBytes, 2)
      [] k = 13 -> SolTuple(<<>>)
      [] k = 14 -> SolTuple(<<SolBool, SolAddress>>)
      [] OTHER -> SolTuple(<<SolFixedBytes(4), SolArray(SolBool)>>)

SolTypes == {SolTypeSample(k) : k \in 0..(NumSolTypes - 1)}

RECURSIVE Product(_, _)

\* the sequences of one element of each of sets[i..]
Product(sets, i) ==
    IF i > Len(sets) THEN {<<>>}
    ELSE {<<v>> \o rest : v \in sets[i], rest \in Product(sets, i + 1)}

RECURSIVE ValuesOf(_)

\* the sample Rust values of a type
ValuesOf(ty) ==
    CASE ty.k = "bool" -> BOOLEAN
      [] ty.k = "uint" ->
            IF ty.bits = 256 THEN {WordOfNat(42), Fill(32, 255)}
            ELSE {0, 2 ^ ty.bits - 1}
      [] ty.k = "address" -> {AddressSample(0), AddressSample(1)}
      [] ty.k = "fixed_bytes" -> {Zeros(ty.n), [i \in 1..ty.n |-> 170 + i]}
      [] ty.k = "bytes" -> ByteStrings
      [] ty.k = "array" ->
            UNION {[1..n -> ValuesOf(ty.elem)] : n \in 0..MaxArrayLen}
      [] ty.k = "fixed_array" -> [1..ty.n -> ValuesOf(ty.elem)]
      [] ty.k = "tuple" ->
            Product([i \in 1..Len(ty.elems) |-> ValuesOf(ty.elems[i])], 1)

\* Transfer(address indexed, address indexed, uint256); anonymous
\* Note(uint8 indexed, bytes, uint8); Ping(); Data(bytes, uint256); anonymous
\* Bare(bool); Full(bool indexed, uint8 indexed, bytes32 indexed, uint8[])
EventSample(k) ==
    CASE k = 0 ->
            SolEventType(<<84, 114, 97, 110, 115, 102, 101, 114, 40, 97, 100, 100,
                           114, 101, 115, 115, 44, 97, 100, 100, 114, 101, 115, 115,
                           44, 117, 105, 110, 116, 50, 53, 54, 41>>,
                         FALSE, <<SolAddress, SolAddress>>, <<SolUint(256)>>)
      [] k = 1 ->
            SolEventType(<<78, 111, 116, 101, 40, 117, 105, 110, 116, 56, 44, 98,
                           121, 116, 101, 115, 44, 117, 105, 110, 116, 56, 41>>,
                         TRUE, <<SolUint(8)>>, <<SolBytes, SolUint(8)>>)
      [] k = 2 ->
            SolEventType(<<80, 105, 110, 103, 40, 41>>, FALSE, <<>>, <<>>)
      [] k = 3 ->
            SolEventType(<<68, 97, 116, 97, 40, 98, 121, 116, 101, 115, 44, 117,
                           105, 110, 116, 50, 53, 54, 41>>,
                         FALSE, <<>>, <<SolBytes, SolUint(256)>>)
      [] k = 4 ->
            SolEventType(<<66, 97, 114, 101, 40, 98, 111, 111, 108, 41>>,
                         TRUE, <<>>, <<SolBool>>)
      [] k = 5 ->
            SolEventType(<<70, 117, 108, 108, 40, 98, 111, 111, 108, 44, 117, 105,
                           110, 116, 56, 44, 98, 121, 116, 101, 115, 51, 50, 44, 117,
                           105, 110, 116, 56, 91, 93, 41>>,
                         FALSE, <<SolBool, SolUint(8), SolFixedBytes(32)>>,
                         <<SolArray(SolUint(8))>>)
      [] OTHER ->
            SolEventType(<<69, 48 + (k % 10), 40, 98, 111, 111, 108, 41>>,
                         TRUE, <<SolBool>>, <<>>)

Events == {EventSample(k) : k \in 0..(NumEvents - 1)}

\* the values of an event type
EventValues(E) ==
    {[event |-> E, indexed |-> indexed, body |-> body] :
        indexed \in ValuesOf(SolTuple(E.indexed)),
        body \in ValuesOf(DataTuple(E))}

\* byte i (from 0) of the buffer replaced
SetByte(data, i, b) == [data EXCEPT ![i + 1] = b]

\* buffers to decode, made from an encoding: the encoding; for each of its
\* words, the word with its first byte set to 0xff and the word with 2 added to
\* its last byte; the encoding without its last byte and without its last word;
\* the empty buffer; the encoding followed by a zero word
DecodeInputs(enc) ==
    {[kind |-> "canonical", data |-> enc]}
    \cup {[kind |-> "dirty_high", data |-> SetByte(enc, 32 * j, 255)] :
            j \in 0..(Len(enc) \div 32 - 1)}
    \cup {[kind |-> "dirty_low",
           data |-> SetByte(enc, 32 * j + 31, (enc[32 * j + 32] + 2) % 256)] :
            j \in 0..(Len(enc) \div 32 - 1)}
    \cup {[kind |-> "truncated", data |-> Slice(enc, 0, n)] :
            n \in {Len(enc) - 1, Len(enc) - 32} \cap 0..Len(enc)}
    \cup {[kind |-> "empty", data |-> <<>>],
          [kind |-> "extended", data |-> enc \o Zeros(32)]}

\* topic lists to decode, made from the topics of an event: the topics; the
\* topics without the last; the topics and one more; the topics with the first
\* byte of the last set to 0xff
TopicInputs(words) ==
    {[kind |-> "canonical", words |-> words],
     [kind |-> "extended", words |-> Append(words, Fill(32, 1))]}
    \cup (IF words = <<>> THEN {}
          ELSE {[kind |-> "truncated", words |-> Slice(words, 0, Len(words) - 1)],
                [kind |-> "dirty",
                 words |-> [words EXCEPT ![Len(words)] = SetByte(@, 0, 255)]]})

----------------------------------------------------------------------------
(* The state machine of the ABI methods: a Solidity type and a value of    *)
(* it, or an event value, is chosen; one method at a time is called on it, *)
(* with every sample argument, and its result is held until the caller     *)
(* drops it.  The variable self holds the chosen subject; chain_id is not  *)
(* used by these methods and stays None.                                   *)

IsSolValue == "ty" \in DOMAIN self

IsEventValue == "event" \in DOMAIN self

\* the types whose token is a sequence with a shape fixed by the type
IsSeqType(ty) == ty.k \in {"tuple", "fixed_array"}

\* the types whose token is a sequence
IsParamsType(ty) == ty.k \in {"tuple", "fixed_array", "array"}

SolInit ==
    /\ \/ \E k \in 0..(NumSolTypes - 1) :
            \E v \in ValuesOf(SolTypeSample(k)) :
                self = [ty |-> SolTypeSample(k), rust |-> v]
       \/ \E k \in 0..(NumEvents - 1) :
            \E ev \in EventValues(EventSample(k)) : self = ev
    /\ chain_id = None
    /\ op = "none"
    /\ args = [none |-> TRUE]
    /\ res = [none |-> TRUE]

AbiEncodeCall ==
    /\ op = "none"
    /\ IsSolValue
    /\ op' = "abi_encode"
    /\ args' = [none |-> TRUE]
    /\ res' = [out |-> abi_encode(self.ty, self.rust)]
    /\ UNCHANGED <<self, chain_id>>

AbiEncodeSequenceCall ==
    /\ op = "none"
    /\ IsSolValue
    /\ IsSeqType(self.ty)
    /\ op' = "abi_encode_sequence"
    /\ args' = [none |-> TRUE]
    /\ res' = [out |-> abi_encode_sequence(self.ty, self.rust)]
    /\ UNCHANGED <<self, chain_id>>

AbiEncodeParamsCall ==
    /\ op = "none"
    /\ IsSolValue
    /\ IsParamsType(self.ty)
    /\ op' = "abi_encode_params"
    /\ args' = [none |-> TRUE]
    /\ res' = [out |-> abi_encode_params(self.ty, self.rust)]
    /\ UNCHANGED <<self, chain_id>>

AbiEncodedSizeCall ==
    /\ op = "none"
    /\ IsSolValue
    /\ ~DYNAMIC(self.ty)
    /\ op' = "abi_encoded_size"
    /\ args' = [none |-> TRUE]
    /\ res' = [size |-> abi_encoded_size(self.ty, self.rust)]
    /\ UNCHANGED <<self, chain_id>>

AbiDecodeCall ==
    /\ op = "none"
    /\ IsSolValue
    /\ \E inp \in DecodeInputs(abi_encode(self.ty, self.rust)), validate \in BOOLEAN :
        /\ op' = "abi_decode"
        /\ args' = [kind |-> inp.kind, data |-> inp.data, validate |-> validate]
        /\ res' = abi_decode(self.ty, inp.data, validate)
    /\ UNCHANGED <<self, chain_id>>

AbiDecodeSequenceCall ==
    /\ op = "none"
    /\ IsSolValue
    /\ IsSeqType(self.ty)
    /\ \E inp \in DecodeInputs(abi_encode_sequence(self.ty, self.rust)),
          validate \in BOOLEAN :
        /\ op' = "abi_decode_sequence"
        /\ args' = [kind |-> inp.kind, data |-> inp.data, validate |-> validate]
        /\ res' = abi_decode_sequence(self.ty, inp.data, validate)
    /\ UNCHANGED <<self, chain_id>>

AbiDecodeParamsCall ==
    /\ op = "none"
    /\ IsSolValue
    /\ IsParamsType(self.ty)
    /\ \E inp \in DecodeInputs(abi_encode_params(self.ty, self.rust)),
          validate \in BOOLEAN :
        /\ op' = "abi_decode_params"
        /\ args' = [kind |-> inp.kind, data |-> inp.data, validate |-> validate]
        /\ res' = abi_decode_params(self.ty, inp.data, validate)
    /\ UNCHANGED <<self, chain_id>>

TopicsCall ==
    /\ op = "none"
    /\ IsEventValue
    /\ op' = "topics"
    /\ args' = [none |-> TRUE]
    /\ res' = [topics |-> topics(self)]
    /\ UNCHANGED <<self, chain_id>>

EventAbiEncodedSizeCall ==
    /\ op = "none"
    /\ IsEventValue
    /\ op' = "SolEvent::abi_encoded_size"
    /\ args' = [none |-> TRUE]
    /\ res' = [size |-> SolEvent_abi_encoded_size(self)]
    /\ UNCHANGED <<self, chain_id>>

EncodeDataToCall ==
    /\ op = "none"
    /\ IsEventValue
    /\ \E out \in {<<>>, Hello} :
        /\ op' = "encode_data_to"
        /\ args' = [out |-> out]
        /\ res' = encode_data_to(self, out)
    /\ UNCHANGED <<self, chain_id>>

EncodeDataCall ==
    /\ op = "none"
    /\ IsEventValue
    /\ op' = "encode_data"
    /\ args' = [none |-> TRUE]
    /\ res' = [out |-> encode_data(self)]
    /\ UNCHANGED <<self, chain_id>>

EncodeTopicsCall ==
    /\ op = "none"
    /\ IsEventValue
    /\ op' = "encode_topics"
    /\ args' = [none |-> TRUE]
    /\ res' = encode_topics(self)
    /\ UNCHANGED <<self, chain_id>>

DecodeLogCall ==
    /\ op = "none"
    /\ IsEventValue
    /\ \E t \in TopicInputs([i \in 1..COUNT(self.event) |-> encode_topics(self).out[i].w]),
          inp \in DecodeInputs(encode_data(self)), validate \in BOOLEAN :
        /\ op' = "decode_log"
        /\ args' = [topics_kind |-> t.kind, topics |-> t.words, kind |-> inp.kind,
                    data |-> inp.data, validate |-> validate]
        /\ res' = decode_log(self.event, t.words, inp.data, validate)
    /\ UNCHANGED <<self, chain_id>>

\* the caller is done with the result of the last call
SolReturn ==
    /\ op # "none"
    /\ op' = "none"
    /\ args' = [none |-> TRUE]
    /\ res' = [none |-> TRUE]
    /\ UNCHANGED <<self, chain_id>>

SolNext ==
    \/ AbiEncodeCall
    \/ AbiEncodeSequenceCall
    \/ AbiEncodeParamsCall
    \/ AbiEncodedSizeCall
    \/ AbiDecodeCall
    \/ AbiDecodeSequenceCall
    \/ AbiDecodeParamsCall
    \/ TopicsCall
    \/ EventAbiEncodedSizeCall
    \/ EncodeDataToCall
    \/ EncodeDataCall
    \/ EncodeTopicsCall
    \/ DecodeLogCall
    \/ SolReturn

SolSpec == SolInit /\ [][SolNext]_vars

----------------------------------------------------------------------------
(* Properties of the SolType methods *)

IsDecodeCall == op \in {"abi_decode", "abi_decode_params", "abi_decode_sequence"}

\* the result of the token decoding that the decoding method called starts with
TokenDecoded ==
    CASE op = "abi_decode" -> decode(self.ty, args.data, args.validate)
      [] op = "abi_decode_params" -> decode_params(self.ty, args.data, args.validate)
      [] op = "abi_decode_sequence" -> decode_sequence(self.ty, args.data, args.validate)

\* C12: validating decode.  For abi_decode, abi_decode_params and
\* abi_decode_sequence called with validate = TRUE: a value is returned only
\* when valid_token holds for the decoded token, and it is detokenize of that
\* token; when the token decoding succeeds but valid_token is false, the result
\* is the TypeCheckFail error with the Solidity name of the type, and
\* detokenize is not applied; an error of the token decoding is returned as it
\* is, no type check having been made.
C12_ValidatingDecode ==
    (IsDecodeCall /\ args.validate) =>
        /\ res.ok =>
              /\ TokenDecoded.ok
              /\ valid_token(self.ty, TokenDecoded.val)
              /\ res.val = detokenize(self.ty, TokenDecoded.val)
        /\ (TokenDecoded.ok /\ ~valid_token(self.ty, TokenDecoded.val)) =>
              /\ ~res.ok
              /\ res.err[1] = "TypeCheckFail"
              /\ res.err[2] = sol_type_name(self.ty)
              /\ \A i \in 1..Len(res.calls) : res.calls[i] # "detokenize"
        /\ ~TokenDecoded.ok =>
              /\ ~res.ok
              /\ res.err = TokenDecoded.err
              /\ Len(res.calls) = 1

\* C12 witness: a word whose last byte is 2 was decoded as bool with validation:
\* the token was read, and the result is TypeCheckFail for "bool"
C12_Witness ==
    /\ op = "abi_decode"
    /\ args.validate
    /\ self.ty = SolBool
    /\ args.data = Zeros(31) \o <<2>>
    /\ TokenDecoded.ok
    /\ ~res.ok
    /\ res.err = TypeCheckFail("bool", WordToken(Zeros(31) \o <<2>>))
    /\ res.calls = <<"decode", "type_check">>

\* C13: non-validating decode.  For abi_decode, abi_decode_params and
\* abi_decode_sequence called with validate = FALSE: whenever the token decoding
\* succeeds the result is Ok(detokenize(token)), also when valid_token is false
\* for the token; no type check is made and no TypeCheckFail is returned.
C13_NonValidatingDecode ==
    (IsDecodeCall /\ ~args.validate) =>
        /\ TokenDecoded.ok =>
              /\ res.ok
              /\ res.val = detokenize(self.ty, TokenDecoded.val)
        /\ ~TokenDecoded.ok => ~res.ok /\ res.err = TokenDecoded.err
        /\ \A i \in 1..Len(res.calls) : res.calls[i] # "type_check"
        /\ ~res.ok => res.err[1] # "TypeCheckFail"

\* C13 witness: a word with 0xff in its first byte and 0xff in its last was
\* decoded as uint8 without validation: valid_token is false for the token, and
\* the result is Ok(255)
C13_Witness ==
    /\ op = "abi_decode"
    /\ ~args.validate
    /\ self.ty = SolUint(8)
    /\ args.data = <<255>> \o Zeros(30) \o <<255>>
    /\ TokenDecoded.ok
    /\ ~valid_token(self.ty, TokenDecoded.val)
    /\ res.ok
    /\ res.val = 255

----------------------------------------------------------------------------
(* Properties of the encoder and of the encoded sizes *)

\* the token of the value the SolType methods are called on
SelfToken == tokenize(self.ty, self.rust)

\* C14: the head/tail length law.  The bytes abi_encode produces are 32 times
\* the head words of the token plus the bytes of its tail, and the bytes
\* abi_encode_sequence produces are 32 times the head words of the children plus
\* the bytes of their tails; for every event value the length of encode_data()
\* is abi_encoded_size(), which is ENCODED_SIZE of the data tuple when it is
\* static and 32 * total_words(tokenize_body()) otherwise; and for a static
\* SolType abi_encoded_size(v) is ENCODED_SIZE, the length of the encoding.
C14_HeadTailLengthLaw ==
    /\ op = "abi_encode" =>
          Len(res.out) = 32 * head_words(SelfToken) + Len(tail_append(SelfToken))
    /\ op = "abi_encode_sequence" =>
          Len(res.out) =
              32 * SumSeq([i \in 1..Len(SelfToken.ts) |-> head_words(SelfToken.ts[i])], 1)
              + SumSeq([i \in 1..Len(SelfToken.ts) |->
                          Len(tail_append(SelfToken.ts[i]))], 1)
    /\ op = "encode_data" =>
          /\ Len(res.out) = SolEvent_abi_encoded_size(self)
          /\ SolEvent_abi_encoded_size(self) =
                IF DYNAMIC(DataTuple(self.event))
                THEN 32 * total_words(tokenize_body(self))
                ELSE ENCODED_SIZE(DataTuple(self.event))[1]
    /\ op = "abi_encoded_size" =>
          /\ res.size = ENCODED_SIZE(self.ty)[1]
          /\ res.size = Len(abi_encode(self.ty, self.rust))

\* C14 witness: the data of an event Data(bytes, uint256) holding "hello" and 42
\* was encoded to 128 bytes, and abi_encoded_size() of the event is 160
C14_Witness ==
    /\ op = "encode_data"
    /\ self.event = EventSample(3)
    /\ self.body = <<Hello, WordOfNat(42)>>
    /\ Len(res.out) = 128
    /\ total_words(tokenize_body(self)) = 5
    /\ SolEvent_abi_encoded_size(self) = 160

\* the sequence that is the top-level object of the encoding made
TopSequence ==
    CASE op = "abi_encode" -> <<SelfToken>>
      [] op = "abi_encode_sequence" -> SelfToken.ts
      [] op = "abi_encode_params" ->
            IF self.ty.k = "tuple" THEN SelfToken.ts ELSE <<SelfToken>>

\* where the head of element i of a sequence starts, from the start of the
\* sequence
HeadPos(ts, i) == 32 * SumSeq([j \in 1..(i - 1) |-> head_words(ts[j])], 1)

\* where the tail of element i of a sequence starts, from the start of the
\* sequence: after all the heads and the tails of the elements before it
TailPos(ts, i) ==
    HeadPos(ts, Len(ts) + 1) + SumSeq([j \in 1..(i - 1) |-> Len(tail_append(ts[j]))], 1)

\* the sequence ts is laid out in out from position base on: a static element
\* inline at its head position, a dynamic element as the offset of its tail,
\* counted from base, with its tail there
LaidOutAt(ts, out, base) ==
    \A i \in 1..Len(ts) :
        IF is_dynamic(ts[i])
        THEN /\ Slice(out, base + HeadPos(ts, i), base + HeadPos(ts, i) + 32)
                    = WordOfNat(TailPos(ts, i))
             /\ Slice(out, base + TailPos(ts, i),
                      base + TailPos(ts, i) + Len(tail_append(ts[i])))
                    = tail_append(ts[i])
        ELSE Slice(out, base + HeadPos(ts, i), base + HeadPos(ts, i + 1))
                    = head_append(ts[i], 0)

\* C15: dynamic offsets.  In the bytes abi_encode, abi_encode_sequence and
\* abi_encode_params produce, the head slot of every dynamic element of the
\* top-level sequence holds the big-endian offset of its tail: the total head
\* length of the sequence plus the length of the tails of the elements before
\* it; a static element is inline; and the elements of a dynamic element that
\* is itself a sequence are laid out by the same rule with offsets counted from
\* the start of that sequence, not of the buffer.  encode_params of
\* (bytes "hello", uint256 42) is the words 0x40, 0x2a, 0x05 and "hello" padded.
C15_DynamicOffsets ==
    op \in {"abi_encode", "abi_encode_sequence", "abi_encode_params"} =>
        /\ LaidOutAt(TopSequence, res.out, 0)
        /\ Len(res.out) = TailPos(TopSequence, Len(TopSequence) + 1)
        /\ \A i \in 1..Len(TopSequence) :
              LET t == TopSequence[i]
              IN  (is_dynamic(t) /\ t.k \in {"fixed", "dyn"}) =>
                      LaidOutAt(t.ts, res.out,
                                TailPos(TopSequence, i) + IF t.k = "dyn" THEN 32 ELSE 0)
        /\ (op = "abi_encode_params" /\ self.ty = BytesAndUint256
                /\ self.rust = <<Hello, WordOfNat(42)>>) =>
              res.out = WordOfNat(64) \o WordOfNat(42) \o WordOfNat(5)
                            \o Hello \o Zeros(27)

\* C15 witness: (uint8, (bytes, bool), bool[2]) was encoded as parameters with
\* a 33-byte string: the head slot of the inner tuple holds 0x80, and the head
\* slot of the string inside it holds 0x40, which is counted from the start of
\* the inner tuple at byte 128
C15_Witness ==
    /\ op = "abi_encode_params"
    /\ self.ty = SolTypeSample(11)
    /\ self.rust[2][1] = ByteStringSample(3)
    /\ Slice(res.out, 32, 64) = WordOfNat(128)
    /\ Slice(res.out, 128, 160) = WordOfNat(64)
    /\ Slice(res.out, 128 + 64, 128 + 96) = WordOfNat(33)
    /\ Len(res.out) = 128 + 64 + 32 + 64

----------------------------------------------------------------------------
(* Properties of the SolEvent methods *)

\* C16: for every event value encode_topics() does not abort and returns
\* exactly TopicList::COUNT word tokens: encode_topics_raw fails only on a
\* buffer of fewer than COUNT words, and it is given COUNT zero words.
C16_EncodeTopicsInfallible ==
    op = "encode_topics" =>
        /\ ~res.panicked
        /\ Len(res.out) = COUNT(self.event)
        /\ \A i \in 1..Len(res.out) : res.out[i].k = "word" /\ Len(res.out[i].w) = 32
        /\ \A n \in 0..4 :
              encode_topics_raw(self, [i \in 1..n |-> WordToken(Zeros(32))]).ok
                  <=> n >= COUNT(self.event)

\* C16 witness: the topics of an event with the signature hash and three
\* indexed parameters were encoded into four words
C16_Witness ==
    /\ op = "encode_topics"
    /\ COUNT(self.event) = 4
    /\ ~res.panicked
    /\ Len(res.out) = 4
    /\ res.out[4].w # Zeros(32)

\* C17: event topics.  For an event that is not anonymous, topic 0 is the
\* signature hash of the event and there is one topic more than indexed
\* parameters; for an anonymous event no signature hash is prepended and
\* topics() has as many elements as there are indexed parameters.  The topics
\* after the hash are the indexed parameters in order, and encode_topics()
\* returns the words of topics().
C17_EventTopics ==
    /\ op = "topics" =>
          /\ ~self.event.ANONYMOUS =>
                /\ Len(res.topics) = 1 + Len(self.event.indexed)
                /\ res.topics[1] = keccak256(self.event.SIGNATURE)
                /\ \A i \in 1..Len(self.indexed) : res.topics[i + 1] = self.indexed[i]
          /\ self.event.ANONYMOUS =>
                /\ Len(res.topics) = Len(self.event.indexed)
                /\ \A i \in 1..Len(self.indexed) : res.topics[i] = self.indexed[i]
    /\ op = "encode_topics" =>
          /\ ~self.event.ANONYMOUS =>
                /\ Len(res.out) = 1 + Len(self.event.indexed)
                /\ res.out[1].w = keccak256(self.event.SIGNATURE)
          /\ self.event.ANONYMOUS =>
                /\ Len(res.out) = Len(self.event.indexed)
                /\ \A i \in 1..Len(res.out) :
                      res.out[i] = tokenize(self.event.indexed[i], self.indexed[i])

\* C17 witness: the topics of an anonymous event with one indexed parameter
\* were encoded: one word, which is that parameter and not the signature hash
C17_Witness ==
    /\ op = "encode_topics"
    /\ self.event.ANONYMOUS
    /\ Len(self.event.indexed) = 1
    /\ Len(res.out) = 1
    /\ res.out[1].w = WordOfNat(255)
    /\ res.out[1].w # SIGNATURE_HASH(self.event)

\* C20: decode_log decodes the topics before the data and fails fast.  The
\* first call is decode_topics; if it fails, its error is returned and the data
\* is not decoded; if the topics decode and decoding the data fails, in the
\* token decoding or in the type check under validate = TRUE, that error is
\* returned and no event is built; the event is built only when both succeed,
\* by new of the decoded topics and the decoded body.
C20_DecodeLogFailFast ==
    op = "decode_log" =>
        LET decoded == decode_topics(self.event, args.topics)
            body == abi_decode_data(self.event, args.data, args.validate)
        IN  /\ res.calls[1] = "decode_topics"
            /\ ~decoded.ok =>
                  /\ ~res.ok
                  /\ res.err = decoded.err
                  /\ res.calls = <<"decode_topics">>
            /\ (decoded.ok /\ ~body.ok) =>
                  /\ ~res.ok
                  /\ res.err = body.err
                  /\ res.calls = <<"decode_topics", "abi_decode_data">>
            /\ res.ok <=> (decoded.ok /\ body.ok)
            /\ res.ok =>
                  /\ res.val = new(self.event, decoded.val, body.val)
                  /\ res.calls = <<"decode_topics", "abi_decode_data", "new">>

\* C20 witness: a log was decoded whose topics are one too few and whose data
\* cannot be decoded either: the error is that of the topics, and the data was
\* not decoded
C20_Witness ==
    /\ op = "decode_log"
    /\ Len(args.topics) = COUNT(self.event) - 1
    /\ ~abi_decode_data(self.event, args.data, args.validate).ok
    /\ ~res.ok
    /\ res.err = Other("topic list length mismatch")
    /\ res.calls = <<"decode_topics">>

\* C21: encode_data_to only extends the caller's buffer.  Whatever the buffer
\* held before the call, afterwards it holds those bytes, unchanged and in
\* place, followed by the ABI sequence encoding of the tokenized body, and the
\* bytes appended are those encode_data returns from an empty buffer.
C21_EncodeDataToExtends ==
    op = "encode_data_to" =>
        LET p == args.out
            appended == SubSeq(res.out, Len(p) + 1, Len(res.out))
        IN  /\ res.out = p \o encode_sequence(tokenize_body(self))
            /\ Len(res.out) >= Len(p)
            /\ SubSeq(res.out, 1, Len(p)) = p
            /\ appended = encode_data(self)

\* C21 witness: the data of an event with a dynamic body was appended to a
\* buffer that already held bytes, and something was appended
C21_Witness ==
    /\ op = "encode_data_to"
    /\ args.out = Hello
    /\ DYNAMIC(DataTuple(self.event))
    /\ Len(res.out) > Len(Hello)
    /\ SubSeq(res.out, 1, Len(Hello)) = Hello

C23_ChecksumParsesBack ==
    op = "parse_checksummed" =>
        /\ args.s = to_checksum(self, chain_id) =>
              /\ res.ok
              /\ res.val = self
              /\ Len(args.s) = 42
              /\ \A i \in 1..42 :
                    /\ ToAsciiLowercase(args.s[i]) = (Prefix0x \o HexEncode(self))[i]
                    /\ args.s[i] # (Prefix0x \o HexEncode(self))[i] =>
                          /\ i >= 3
                          /\ IsHexLetter(args.s[i])
                          /\ IsAsciiUpper(args.s[i])
        /\ \A g \in ChainIdOptions :
              args.s = to_checksum(self, g) =>
                  \/ res.ok /\ res.val = self
                  \/ ~res.ok /\ res.err = InvalidChecksum

\* C23 witness: the checksum of an address made under one chain id option was
\* parsed under another, under which the address has another checksum, and was
\* rejected with InvalidChecksum
C23_Witness ==
    /\ op = "parse_checksummed"
    /\ args.kind = "other_chain"
    /\ \E g \in ChainIdOptions \ {chain_id} : args.s = to_checksum(self, g)
    /\ args.s # to_checksum(self, chain_id)
    /\ from_str(args.s).ok
    /\ from_str(args.s).val = self
    /\ ~res.ok
    /\ res.err = InvalidChecksum

====
